---- MODULE Spec2Model ----
(***************************************************************************)
(* histo-graph: a directed multigraph whose mutations are recorded in a    *)
(* git-like repository (hash chains, branches, tags, detached heads).      *)
(*                                                                         *)
(* A HashList (Nil | Node{hash, tail}) is a sequence of hashes, newest     *)
(* first: Nil is <<>>, Node{h, t} is <<h>> \o t.  Rc sharing is not        *)
(* observable (a list is never mutated and Ref equality is structural).    *)
(* Option<T> is a sequence of length 0 (None) or 1 (Some).                 *)
(* Result<T, E> is a record [ok, val].                                     *)
(***************************************************************************)
EXTENDS Integers, Sequences, FiniteSets, TLC

VARIABLES repository, graph, lists, last, panicked, btb, files, writer

vars == <<repository, graph, lists, last, panicked, btb, files, writer>>

\* ------------------------------------------------------------------ bounds
\* most commit records in Repository.commits (so no chain is longer)
MaxCommits == 2
\* most references registered in Repository.refs
MaxRefs == 2
\* most hashes prepended to one side of a pair of chains
MaxChain == 3
MaxCommands == 3
\* most elements in the BTreeBag used on its own, duplicates counted
MaxBag == 3

\* ---------------------------------------------------------------- inputs
VertexIds == {0, 1}
RefNames == {"master", "dev"}
Authors == {"ann"}
Comments == {"msg"}

None == <<>>
Some(x) == <<x>>

Ok(v) == [ok |-> TRUE, val |-> v]
Err(e) == [ok |-> FALSE, val |-> e]

\* ------------------------------------------------------------- GraphCommand
AddVertex(v) == <<"AddVertex", v>>
RemoveVertex(v) == <<"RemoveVertex", v>>
AddEdge(v1, v2) == <<"AddEdge", v1, v2>>
RemoveEdge(v1, v2) == <<"RemoveEdge", v1, v2>>

Edge(v1, v2) == <<v1, v2>>

\* the items (Vec<GraphCommand>) offered to Repository.commit
Items == {<<AddVertex(0)>>, <<AddEdge(0, 1), RemoveVertex(1)>>}

\* ----------------------------------------------------------------- HashList
empty == <<>>

singleton(hash) == <<hash>>


\* faulty variant: the node is built on an empty tail
cons_DropsTail(hash, list) == <<hash>>

cons(hash, list) == <<hash>> \o list

is_empty(list) == list = <<>>

head_option(list) == IF list = <<>> THEN None ELSE Some(Head(list))

tail_option(list) == IF list = <<>> THEN None ELSE Some(Tail(list))

\* a predicate |x| x != &hash over NodeHash, as a function applied lazily
NotHash(hash) == [x \in Nat |-> x # hash]

RECURSIVE take_while(_, _)
take_while(list, predicate) ==
    IF list # <<>> /\ predicate[Head(list)]
    THEN <<Head(list)>> \o take_while(Tail(list), predicate)
    ELSE <<>>

skip_while(list, predicate) ==
    IF list # <<>>
    THEN IF predicate[Head(list)]
         THEN take_while(Tail(list), predicate)
         ELSE Tail(list)
    ELSE <<>>

RECURSIVE first_common(_, _)
first_common(l1, l2) ==
    IF l1 = <<>> \/ l2 = <<>> THEN None
    ELSE IF Head(l1) = Head(l2) THEN Some(Head(l1))
    ELSE first_common(Tail(l1), l2)

\* HashListIter::next: [panic, item, current]; tail() panics on Nil before
\* the None is returned
HashListIter_next(current) ==
    IF current = <<>>
    THEN [panic |-> TRUE, item |-> None, current |-> current]
    ELSE [panic |-> FALSE, item |-> Some(Head(current)), current |-> Tail(current)]

\* iter().collect(): next() until it returns None; [panic, items]
RECURSIVE iter_collect(_)
iter_collect(current) ==
    LET n == HashListIter_next(current)
    IN  IF n.panic THEN [panic |-> TRUE, items |-> <<>>]
        ELSE IF n.item = None THEN [panic |-> FALSE, items |-> <<>>]
        ELSE LET rest == iter_collect(n.current)
             IN  [panic |-> rest.panic,
                  items |-> IF rest.panic THEN <<>> ELSE n.item \o rest.items]

\* iter(): a HashListIter positioned on a copy of the chain
iter(list) == [current |-> list]

\* next() called until it returns None: the hashes yielded, and whether a
\* call panicked instead of returning
RECURSIVE HashListIter_drain(_)
HashListIter_drain(it) ==
    LET n == HashListIter_next(it.current)
    IN  IF n.panic THEN [panic |-> TRUE, items |-> <<>>]
        ELSE IF n.item = None THEN [panic |-> FALSE, items |-> <<>>]
        ELSE LET rest == HashListIter_drain([current |-> n.current])
             IN  [panic |-> rest.panic, items |-> n.item \o rest.items]

\* ---------------------------------------------------------------------- Ref
Detached(hashs) == [kind |-> "Detached", hashs |-> hashs]
Tag(hashs, n) == [kind |-> "Tag", hashs |-> hashs, name |-> n]
Branch(hashs, n) == [kind |-> "Branch", hashs |-> hashs, name |-> n]

name(r) == IF r.kind = "Detached" THEN "Detached HEAD" ELSE r.name

hashs(r) == r.hashs

\* faulty variant: a detached reference is writable
is_read_only_TagOnly(r) == r.kind = "Tag"

is_read_only(r) == r.kind = "Tag" \/ r.kind = "Detached"

\* ------------------------------------------------------------------- Hasher
\* The Hasher trait has no working implementation in the repository
\* (CommandHasher::hash is a placeholder): a deterministic hasher that binds
\* the item to the previous head, as the interface requires.  It is
\* injective on (item, previous) for items of at most two commands.
NumVertexIds == Cardinality(VertexIds)

CommandCode(c) ==
    CASE c[1] = "AddVertex" -> 1 + c[2]
      [] c[1] = "RemoveVertex" -> 1 + NumVertexIds + c[2]
      [] c[1] = "AddEdge" -> 1 + 2 * NumVertexIds + c[2] * NumVertexIds + c[3]
      [] c[1] = "RemoveEdge" ->
            1 + 2 * NumVertexIds + NumVertexIds * NumVertexIds
              + c[2] * NumVertexIds + c[3]

CommandBase == 1 + 2 * NumVertexIds + 2 * NumVertexIds * NumVertexIds

RECURSIVE ItemCode(_)
ItemCode(item) ==
    IF item = <<>> THEN 0
    ELSE ItemCode(SubSeq(item, 1, Len(item) - 1)) * CommandBase
         + CommandCode(item[Len(item)])

HashBase == CommandBase * CommandBase

Hasher(item, previous) ==
    (IF previous = None THEN 0 ELSE previous[1]) * HashBase + ItemCode(item)

\* --------------------------------------------------------------- Repository
\* find on a map: the maps (HashMap, BTreeMap) are functions on their keys
EmptyMap == [k \in {} |-> 0]

MapInsert(m, k, v) == [x \in DOMAIN m \cup {k} |-> IF x = k THEN v ELSE m[x]]

MapRemove(m, k) == [x \in DOMAIN m \ {k} |-> m[x]]

Repository_new ==
    LET master == Branch(empty, "master")
    IN  [current |-> master, refs |-> <<master>>, commits |-> EmptyMap]

\* faulty variant: the commit hash ignores the head of the current chain
create_commit_NoPrevious(repo, item, author, comment) ==
    [author |-> author, comment |-> comment, hash |-> Hasher(item, None), item |-> item]

create_commit(repo, item, author, comment) ==
    LET last_hash == head_option(hashs(repo.current))
        commit_hash == Hasher(item, last_hash)
    IN  [author |-> author, comment |-> comment, hash |-> commit_hash, item |-> item]

\* faulty variant: only a Tag is refused, a Detached reference is written to
commit_WritesDetached(repo, item, author, comment) ==
    IF repo.current.kind = "Tag"
    THEN [repository |-> repo,
          result |-> Err(<<"Cannot modify Reference", name(repo.current)>>)]
    ELSE LET c == create_commit(repo, item, author, comment)
             new_current == Branch(cons(c.hash, hashs(repo.current)), name(repo.current))
         IN  [repository |-> [repo EXCEPT !.commits = MapInsert(repo.commits, c.hash, c),
                                          !.current = new_current],
              result |-> Ok(new_current)]

\* faulty variant: the chain is advanced but the Commit record is not stored
commit_SkipsStore(repo, item, author, comment) ==
    IF is_read_only(repo.current)
    THEN [repository |-> repo,
          result |-> Err(<<"Cannot modify Reference", name(repo.current)>>)]
    ELSE LET c == create_commit(repo, item, author, comment)
             new_current == Branch(cons(c.hash, hashs(repo.current)), name(repo.current))
         IN  [repository |-> [repo EXCEPT !.current = new_current],
              result |-> Ok(new_current)]


\* faulty variant: every registered reference with the name of the current
\* branch, tags included, is moved to the new head
commit_MovesRefs(repo, item, author, comment) ==
    IF is_read_only(repo.current)
    THEN [repository |-> repo,
          result |-> Err(<<"Cannot modify Reference", name(repo.current)>>)]
    ELSE LET c == create_commit(repo, item, author, comment)
             new_head == cons(c.hash, hashs(repo.current))
             new_ref == Branch(new_head, name(repo.current))
         IN  [repository |->
                 [repo EXCEPT !.commits = MapInsert(@, c.hash, c),
                              !.current = new_ref,
                              !.refs = [i \in DOMAIN @ |->
                                           IF @[i].name = new_ref.name
                                           THEN [@[i] EXCEPT !.hashs = new_head]
                                           ELSE @[i]]],
              result |-> Ok(new_ref)]

\* every operation returns [repository, result]
commit(repo, item, author, comment) ==
    IF is_read_only(repo.current)
    THEN [repository |-> repo,
          result |-> Err(<<"Cannot modify Reference", name(repo.current)>>)]
    ELSE LET c == create_commit(repo, item, author, comment)
             new_head == cons(c.hash, hashs(repo.current))
             new_current == Branch(new_head, name(repo.current))
         IN  [repository |-> [repo EXCEPT !.commits = MapInsert(repo.commits, c.hash, c),
                                          !.current = new_current],
              result |-> Ok(new_current)]

find_commit(repo, hash) ==
    IF hash \in DOMAIN repo.commits THEN Some(repo.commits[hash]) ELSE None

\* commits(): [panic, items]; unwrap() panics on a hash missing from the table
commits(repo) ==
    LET it == iter_collect(hashs(repo.current))
    IN  IF it.panic \/ \E i \in 1..Len(it.items) : find_commit(repo, it.items[i]) = None
        THEN [panic |-> TRUE, items |-> <<>>]
        ELSE [panic |-> FALSE,
              items |-> [i \in 1..Len(it.items) |-> find_commit(repo, it.items[i])[1]]]

\* faulty variant: the new tag takes the place of the references registered
\* before it
tag_ReplacesRefs(repo, n) ==
    LET t == Tag(hashs(repo.current), n)
    IN  [repository |-> [repo EXCEPT !.refs = <<t>>], result |-> t]

tag(repo, n) ==
    LET t == Tag(hashs(repo.current), n)
    IN  [repository |-> [repo EXCEPT !.refs = Append(repo.refs, t)], result |-> t]

\* faulty variant: creating the branch also switches to it
branch_SwitchesCurrent(repo, n) ==
    LET b == Branch(hashs(repo.current), n)
    IN  [repository |-> [repo EXCEPT !.refs = Append(repo.refs, b), !.current = b],
         result |-> b]

branch(repo, n) ==
    LET b == Branch(hashs(repo.current), n)
    IN  [repository |-> [repo EXCEPT !.refs = Append(repo.refs, b)], result |-> b]

\* iter().find(): the first registered reference of that kind and name
FindRef(refs, kind, n) ==
    LET hits == {i \in 1..Len(refs) : refs[i].kind = kind /\ name(refs[i]) = n}
    IN  IF hits = {} THEN None
        ELSE Some(refs[CHOOSE i \in hits : \A j \in hits : i <= j])

\* faulty variant: the tag is looked up by name alone, whatever the kind
find_tag_AnyKind(repo, n) ==
    LET hits == {i \in 1..Len(repo.refs) : name(repo.refs[i]) = n}
    IN  IF hits = {} THEN None
        ELSE Some(repo.refs[CHOOSE i \in hits : \A j \in hits : i <= j])

find_tag(repo, n) == FindRef(repo.refs, "Tag", n)

find_branch(repo, n) == FindRef(repo.refs, "Branch", n)

checkout_tag(repo, n) ==
    LET t == find_tag(repo, n)
    IN  IF t = None
        THEN [repository |-> repo, result |-> Err(<<"Tag doesn't exists", n>>)]
        ELSE [repository |-> [repo EXCEPT !.current = t[1]], result |-> Ok(t[1])]

checkout_branch(repo, n) ==
    LET t == find_branch(repo, n)
    IN  IF t = None
        THEN [repository |-> repo, result |-> Err(<<"Branch doesn't exists", n>>)]
        ELSE [repository |-> [repo EXCEPT !.current = t[1]], result |-> Ok(t[1])]

find_hashes_from(r, hash) ==
    LET hs == skip_while(hashs(r), NotHash(hash))
    IN  IF is_empty(hs) THEN None ELSE Some(hs)

checkout_hash(repo, hash) ==
    LET hs == find_hashes_from(repo.current, hash)
    IN  IF hs = None
        THEN [repository |-> repo,
              result |-> Err(<<"Hash couldn't be found on the current Branch/Tag", hash>>)]
        ELSE [repository |-> [repo EXCEPT !.current = Detached(hs[1])],
              result |-> Ok(Detached(hs[1]))]

\* ----------------------------------------------------------------- BTreeBag
\* inner: BTreeMap<T, usize>, a function from the elements held to their count
BTreeBag_new == EmptyMap

BTreeBag_insert(bag, t) ==
    IF t \in DOMAIN bag THEN [bag EXCEPT ![t] = @ + 1] ELSE MapInsert(bag, t, 1)

\* faulty variant: an element whose count falls to zero stays in the map
BTreeBag_remove_KeepsZero(bag, t) ==
    IF t \in DOMAIN bag
    THEN [bag |-> [bag EXCEPT ![t] = @ - 1], removed |-> TRUE]
    ELSE [bag |-> bag, removed |-> FALSE]

\* [bag, removed]
BTreeBag_remove(bag, t) ==
    IF t \in DOMAIN bag
    THEN [bag |-> IF bag[t] - 1 = 0 THEN MapRemove(bag, t) ELSE [bag EXCEPT ![t] = @ - 1],
          removed |-> TRUE]
    ELSE [bag |-> bag, removed |-> FALSE]

\* derived Ord of Edge(VertexId, VertexId): lexicographic
EdgeLess(e1, e2) == e1[1] < e2[1] \/ (e1[1] = e2[1] /\ e1[2] < e2[2])

Repeat(t, n) == [i \in 1..n |-> t]

\* iter(): the elements in sorted order, each repeated count times
RECURSIVE BTreeBag_iter(_)
BTreeBag_iter(bag) ==
    IF DOMAIN bag = {} THEN <<>>
    ELSE LET m == CHOOSE e \in DOMAIN bag : \A o \in DOMAIN bag : o = e \/ EdgeLess(e, o)
         IN  Repeat(m, bag[m]) \o BTreeBag_iter(MapRemove(bag, m))

BTreeBag_len(bag) == Len(BTreeBag_iter(bag))

\* ------------------------------------------------------------ DirectedGraph
\* edge_map: HashMap<VertexId, BTreeBag<Edge>>
DirectedGraph_new == EmptyMap

contains_vertex(g, vertex_id) == vertex_id \in DOMAIN g

vertex_count(g) == Cardinality(DOMAIN g)

RECURSIVE SumLen(_, _)
SumLen(g, vs) ==
    IF vs = {} THEN 0
    ELSE LET v == CHOOSE x \in vs : TRUE
         IN  BTreeBag_len(g[v]) + SumLen(g, vs \ {v})

edge_count(g) == SumLen(g, DOMAIN g) \div 2


\* faulty variant: the bag of v1 is not searched, two known endpoints suffice
contains_edge_VerticesOnly(g, edge) ==
    contains_vertex(g, edge[1]) /\ contains_vertex(g, edge[2])


\* faulty variant: the bag of v1 is searched for the reversed edge
contains_edge_Reversed(g, edge) ==
    IF contains_vertex(g, edge[1]) /\ contains_vertex(g, edge[2])
    THEN LET it == BTreeBag_iter(g[edge[1]])
         IN  \E i \in 1..Len(it) : it[i] = Edge(edge[2], edge[1])
    ELSE FALSE

contains_edge(g, edge) ==
    IF contains_vertex(g, edge[1]) /\ contains_vertex(g, edge[2])
    THEN LET it == BTreeBag_iter(g[edge[1]])
         IN  \E i \in 1..Len(it) : it[i] = edge
    ELSE FALSE


\* faulty variant: a plain insert, which replaces the bag of a known vertex
add_vertex_Resets(g, vertex_id) ==
    IF vertex_id \in DOMAIN g
    THEN [graph |-> [g EXCEPT ![vertex_id] = BTreeBag_new], result |-> TRUE]
    ELSE [graph |-> MapInsert(g, vertex_id, BTreeBag_new), result |-> FALSE]

\* the mutators return [graph, result]
add_vertex(g, vertex_id) ==
    IF vertex_id \in DOMAIN g
    THEN [graph |-> g, result |-> TRUE]
    ELSE [graph |-> MapInsert(g, vertex_id, BTreeBag_new), result |-> FALSE]

\* one pass of the loop body of remove_vertex over the removed vertex's edges
RECURSIVE RemoveIncident(_, _, _)
RemoveIncident(g, vertex_id, edges) ==
    IF edges = <<>> THEN g
    ELSE LET edge == Head(edges)
             v1 == edge[1]
             v2 == edge[2]
             g1 == IF v1 # vertex_id /\ v1 \in DOMAIN g
                   THEN [g EXCEPT ![v1] = BTreeBag_remove(@, edge).bag]
                   ELSE g
             g2 == IF v2 # vertex_id /\ v2 \in DOMAIN g1
                   THEN [g1 EXCEPT ![v2] = BTreeBag_remove(@, edge).bag]
                   ELSE g1
         IN  RemoveIncident(g2, vertex_id, Tail(edges))


\* faulty variant: the vertex entry is dropped, its edges stay with the other
\* endpoints
remove_vertex_NoCleanup(g, vertex_id) ==
    IF vertex_id \in DOMAIN g
    THEN [graph |-> MapRemove(g, vertex_id), result |-> TRUE]
    ELSE [graph |-> g, result |-> FALSE]


\* faulty variant: only the edges leaving the vertex are removed from their
\* other endpoint
remove_vertex_OutboundOnly(g, vertex_id) ==
    IF vertex_id \in DOMAIN g
    THEN LET leaves(e) == e[1] = vertex_id
         IN  [graph |-> RemoveIncident(MapRemove(g, vertex_id), vertex_id,
                                       SelectSeq(BTreeBag_iter(g[vertex_id]), leaves)),
              result |-> TRUE]
    ELSE [graph |-> g, result |-> FALSE]

\* faulty variant: only the edges entering the vertex are removed from their
\* other endpoint
remove_vertex_InboundOnly(g, vertex_id) ==
    IF vertex_id \in DOMAIN g
    THEN LET enters(e) == e[2] = vertex_id
         IN  [graph |-> RemoveIncident(MapRemove(g, vertex_id), vertex_id,
                                       SelectSeq(BTreeBag_iter(g[vertex_id]), enters)),
              result |-> TRUE]
    ELSE [graph |-> g, result |-> FALSE]

remove_vertex(g, vertex_id) ==
    IF vertex_id \in DOMAIN g
    THEN [graph |-> RemoveIncident(MapRemove(g, vertex_id), vertex_id,
                                   BTreeBag_iter(g[vertex_id])),
          result |-> TRUE]
    ELSE [graph |-> g, result |-> FALSE]


\* faulty variant: the edge is recorded again when the graph already holds it
add_edge_NoCheck(g, edge) ==
    LET v1 == edge[1]
        v2 == edge[2]
        ga == add_vertex(add_vertex(g, v1).graph, v2).graph
        gb == [ga EXCEPT ![v1] = BTreeBag_insert(@, edge)]
        gc == [gb EXCEPT ![v2] = BTreeBag_insert(@, edge)]
    IN  [graph |-> gc, result |-> TRUE]


\* faulty variant: a self-loop is recorded once, as its two endpoints share
\* a bag
add_edge_LoopOnce(g, edge) ==
    IF contains_edge(g, edge)
    THEN [graph |-> g, result |-> FALSE]
    ELSE LET v1 == edge[1]
             v2 == edge[2]
             ga == add_vertex(add_vertex(g, v1).graph, v2).graph
             gb == [ga EXCEPT ![v1] = BTreeBag_insert(@, edge)]
             gc == IF v1 = v2 THEN gb ELSE [gb EXCEPT ![v2] = BTreeBag_insert(@, edge)]
         IN  [graph |-> gc, result |-> TRUE]

add_edge(g, edge) ==
    IF contains_edge(g, edge)
    THEN [graph |-> g, result |-> FALSE]
    ELSE LET v1 == edge[1]
             v2 == edge[2]
             ga == add_vertex(add_vertex(g, v1).graph, v2).graph
             gb == [ga EXCEPT ![v1] = BTreeBag_insert(@, edge)]
             gc == [gb EXCEPT ![v2] = BTreeBag_insert(@, edge)]
         IN  [graph |-> gc, result |-> TRUE]


\* faulty variant: the edge is removed from the bag of its start vertex only
remove_edge_OneSide(g, edge) ==
    LET v1 == edge[1]
        r1 == IF v1 \in DOMAIN g THEN BTreeBag_remove(g[v1], edge)
              ELSE [bag |-> EmptyMap, removed |-> FALSE]
        g1 == IF v1 \in DOMAIN g THEN [g EXCEPT ![v1] = r1.bag] ELSE g
    IN  [graph |-> g1, result |-> r1.removed]

remove_edge(g, edge) ==
    LET v1 == edge[1]
        v2 == edge[2]
        r1 == IF v1 \in DOMAIN g THEN BTreeBag_remove(g[v1], edge)
              ELSE [bag |-> EmptyMap, removed |-> FALSE]
        g1 == IF v1 \in DOMAIN g THEN [g EXCEPT ![v1] = r1.bag] ELSE g
        r2 == IF v2 \in DOMAIN g1 THEN BTreeBag_remove(g1[v2], edge)
              ELSE [bag |-> EmptyMap, removed |-> FALSE]
        g2 == IF v2 \in DOMAIN g1 THEN [g1 EXCEPT ![v2] = r2.bag] ELSE g1
    IN  [graph |-> g2, result |-> r1.removed \/ r2.removed]

\* the order in which a HashMap with these keys may be iterated: any
\* arrangement of the keys
IterOrders(keys) ==
    {o \in [1..Cardinality(keys) -> keys] : \A i, j \in DOMAIN o : i # j => o[i] # o[j]}

\* vertices(): edge_map.keys(), in the map's iteration order
vertices(g, order) == order

RECURSIVE Flatten(_)
Flatten(seqs) ==
    IF seqs = <<>> THEN <<>> ELSE Head(seqs) \o Flatten(Tail(seqs))

\* edges(): every bag of edge_map.values() iterated in turn
edges(g, order) == Flatten([i \in DOMAIN order |-> BTreeBag_iter(g[order[i]])])

IncidentEdges(g, vertex_id) ==
    IF vertex_id \in DOMAIN g THEN BTreeBag_iter(g[vertex_id]) ELSE <<>>

outbound_edges(g, vertex_id) ==
    LET from(e) == e[1] = vertex_id
    IN  SelectSeq(IncidentEdges(g, vertex_id), from)

inbound_edges(g, vertex_id) ==
    LET to(e) == e[2] = vertex_id
    IN  SelectSeq(IncidentEdges(g, vertex_id), to)

degree_out(g, vertex_id) == Len(outbound_edges(g, vertex_id))

degree_in(g, vertex_id) == Len(inbound_edges(g, vertex_id))

\* what #[derive(Hash)] of BTreeBag writes to the hasher: the length of inner,
\* then every (Edge, count) entry in key order
RECURSIVE BTreeBag_entries(_)
BTreeBag_entries(bag) ==
    IF DOMAIN bag = {} THEN <<>>
    ELSE LET m == CHOOSE e \in DOMAIN bag : \A o \in DOMAIN bag : o = e \/ EdgeLess(e, o)
         IN  <<m[1], m[2], bag[m]>> \o BTreeBag_entries(MapRemove(bag, m))

BTreeBag_hash(bag) == <<Cardinality(DOMAIN bag)>> \o BTreeBag_entries(bag)

\* the entries of the BTreeMap collected from edge_map, in key order
RECURSIVE VertexEntries(_, _)
VertexEntries(g, vs) ==
    IF vs = {} THEN <<>>
    ELSE LET m == CHOOSE v \in vs : \A o \in vs : v <= o
         IN  <<m>> \o BTreeBag_hash(g[m]) \o VertexEntries(g, vs \ {m})

\* impl Hash for DirectedGraph: what is written to the hasher
DirectedGraph_hash(g) == <<Cardinality(DOMAIN g)>> \o VertexEntries(g, DOMAIN g)


\* faulty variant: the edge operands are exchanged when a removal is reverted
revert_Swapped(command) ==
    CASE command[1] = "AddVertex" -> RemoveVertex(command[2])
      [] command[1] = "RemoveVertex" -> AddVertex(command[2])
      [] command[1] = "AddEdge" -> RemoveEdge(command[2], command[3])
      [] command[1] = "RemoveEdge" -> AddEdge(command[3], command[2])

\* ------------------------------------------------------------- GraphCommand
revert(command) ==
    CASE command[1] = "AddVertex" -> RemoveVertex(command[2])
      [] command[1] = "RemoveVertex" -> AddVertex(command[2])
      [] command[1] = "AddEdge" -> RemoveEdge(command[2], command[3])
      [] command[1] = "RemoveEdge" -> AddEdge(command[2], command[3])

\* [graph, result]
apply_to(command, g) ==
    CASE command[1] = "AddVertex" -> add_vertex(g, command[2])
      [] command[1] = "RemoveVertex" -> remove_vertex(g, command[2])
      [] command[1] = "AddEdge" -> add_edge(g, Edge(command[2], command[3]))
      [] command[1] = "RemoveEdge" -> remove_edge(g, Edge(command[2], command[3]))

\* faulty variant: the loop ends at the first command that changes nothing
RECURSIVE apply_commands_StopsAtNoOp(_, _)
apply_commands_StopsAtNoOp(commands, g) ==
    IF commands = <<>> THEN g
    ELSE LET r == apply_to(Head(commands), g)
         IN  IF r.result THEN apply_commands_StopsAtNoOp(Tail(commands), r.graph) ELSE g

\* the graph after the loop
RECURSIVE apply_commands(_, _)
apply_commands(commands, g) ==
    IF commands = <<>> THEN g
    ELSE apply_commands(Tail(commands), apply_to(Head(commands), g).graph)


\* faulty variant: only the edges are turned into commands
as_commands_EdgesOnly(g, order) ==
    LET es == edges(g, order)
    IN  [i \in DOMAIN es |-> AddEdge(es[i][1], es[i][2])]

as_commands(g, order) ==
    LET vs == vertices(g, order)
        es == edges(g, order)
    IN  [i \in DOMAIN vs |-> AddVertex(vs[i])] \o
        [i \in DOMAIN es |-> AddEdge(es[i][1], es[i][2])]


\* --------------------------------------------------------- DirectedGraphSer
\* From<&DirectedGraph> for DirectedGraphSer: vertices() and edges() collected
DirectedGraphSer_from(g, order) ==
    LET vs == vertices(g, order)
        es == edges(g, order)
    IN  [vertices |-> [i \in DOMAIN vs |-> vs[i]],
         edges |-> [i \in DOMAIN es |-> <<es[i][1], es[i][2]>>]]

RECURSIVE AddVertices(_, _)
AddVertices(g, ids) ==
    IF ids = <<>> THEN g ELSE AddVertices(add_vertex(g, Head(ids)).graph, Tail(ids))

RECURSIVE AddEdges(_, _)
AddEdges(g, pairs) ==
    IF pairs = <<>> THEN g
    ELSE AddEdges(add_edge(g, Edge(Head(pairs)[1], Head(pairs)[2])).graph, Tail(pairs))

\* faulty variant: the vertex list is not read, vertices come from the edges
DirectedGraph_from_EdgesOnly(graph_ser) ==
    AddEdges(DirectedGraph_new, graph_ser.edges)

\* From<&DirectedGraphSer> for DirectedGraph
DirectedGraph_from(graph_ser) ==
    AddEdges(AddVertices(DirectedGraph_new, graph_ser.vertices), graph_ser.edges)

\* ------------------------------------------------------------ StructureDiff
\* diff(g1, g2) is a placeholder in the repository (unimplemented!()); as its
\* comments and the fields' comments say, it is the set difference of the
\* vertices and of the edges of the two graphs.  The Vecs may hold each
\* difference in any order.
StoredEdges(g) == UNION {DOMAIN g[v] : v \in DOMAIN g}

diff(g1, g2) ==
    {[extra_vertices |-> ev, missing_vertices |-> mv,
      extra_edges |-> ee, missing_edges |-> me] :
        ev \in IterOrders(DOMAIN g1 \ DOMAIN g2),
        mv \in IterOrders(DOMAIN g2 \ DOMAIN g1),
        ee \in IterOrders(StoredEdges(g1) \ StoredEdges(g2)),
        me \in IterOrders(StoredEdges(g2) \ StoredEdges(g1))}

StructureDiff_reverse(d) ==
    [extra_vertices |-> d.missing_vertices, missing_vertices |-> d.extra_vertices,
     extra_edges |-> d.missing_edges, missing_edges |-> d.extra_edges]

\* faulty variant: the missing vertices are not added
StructureDiff_as_commands_NoAddVertex(d) ==
    [i \in DOMAIN d.extra_vertices |-> RemoveVertex(d.extra_vertices[i])]
    \o [i \in DOMAIN d.extra_edges |-> RemoveEdge(d.extra_edges[i][1], d.extra_edges[i][2])]
    \o [i \in DOMAIN d.missing_edges |-> AddEdge(d.missing_edges[i][1], d.missing_edges[i][2])]

StructureDiff_as_commands(d) ==
    [i \in DOMAIN d.extra_vertices |-> RemoveVertex(d.extra_vertices[i])]
    \o [i \in DOMAIN d.missing_vertices |-> AddVertex(d.missing_vertices[i])]
    \o [i \in DOMAIN d.extra_edges |-> RemoveEdge(d.extra_edges[i][1], d.extra_edges[i][2])]
    \o [i \in DOMAIN d.missing_edges |-> AddEdge(d.missing_edges[i][1], d.missing_edges[i][2])]

\* ---------------------------------------------------------- HistorizedGraph
\* hg: [repository, graph]; the mutators return [repository, graph, result]
commit_command(hg, command) == commit(hg.repository, <<command>>, "auto", "auto")

\* faulty variant: the vertex is added whether or not the commit succeeded
HistorizedGraph_add_vertex_IgnoresCommit(hg, vertex_id) ==
    LET c == commit_command(hg, AddVertex(vertex_id))
        m == add_vertex(hg.graph, vertex_id)
    IN  [repository |-> c.repository, graph |-> m.graph,
         result |-> IF c.result.ok THEN m.result ELSE FALSE]

HistorizedGraph_add_vertex(hg, vertex_id) ==
    LET c == commit_command(hg, AddVertex(vertex_id))
    IN  IF ~c.result.ok
        THEN [repository |-> c.repository, graph |-> hg.graph, result |-> FALSE]
        ELSE LET m == add_vertex(hg.graph, vertex_id)
             IN  [repository |-> c.repository, graph |-> m.graph, result |-> m.result]

\* faulty variant: the removal is committed and the graph is left as it was
HistorizedGraph_remove_vertex_KeepsVertex(hg, vertex_id) ==
    LET c == commit_command(hg, RemoveVertex(vertex_id))
    IN  [repository |-> c.repository, graph |-> hg.graph,
         result |-> c.result.ok /\ contains_vertex(hg.graph, vertex_id)]

HistorizedGraph_remove_vertex(hg, vertex_id) ==
    LET c == commit_command(hg, RemoveVertex(vertex_id))
    IN  IF ~c.result.ok
        THEN [repository |-> c.repository, graph |-> hg.graph, result |-> FALSE]
        ELSE LET m == remove_vertex(hg.graph, vertex_id)
             IN  [repository |-> c.repository, graph |-> m.graph, result |-> m.result]

HistorizedGraph_add_edge(hg, edge) ==
    LET c == commit_command(hg, AddEdge(edge[1], edge[2]))
    IN  IF ~c.result.ok
        THEN [repository |-> c.repository, graph |-> hg.graph, result |-> FALSE]
        ELSE LET m == add_edge(hg.graph, edge)
             IN  [repository |-> c.repository, graph |-> m.graph, result |-> m.result]

HistorizedGraph_remove_edge(hg, edge) ==
    LET c == commit_command(hg, RemoveEdge(edge[1], edge[2]))
    IN  IF ~c.result.ok
        THEN [repository |-> c.repository, graph |-> hg.graph, result |-> FALSE]
        ELSE LET m == remove_edge(hg.graph, edge)
             IN  [repository |-> c.repository, graph |-> m.graph, result |-> m.result]
\* ------------------------------------------------------------- file storage
\* bincode::serialize of a u64: eight bytes, the least significant first
RECURSIVE LittleEndian(_, _)
LittleEndian(n, width) ==
    IF width = 0 THEN <<>> ELSE <<n % 256>> \o LittleEndian(n \div 256, width - 1)

\* bincode::deserialize of a u64
RECURSIVE FromLittleEndian(_)
FromLittleEndian(bytes) ==
    IF bytes = <<>> THEN 0 ELSE Head(bytes) + 256 * FromLittleEndian(Tail(bytes))

\* Hash::from(content): the SHA-256 digest of the content, taken to be free
\* of collisions: the digest stands for the content it was made of
Hash_from(content) == [sha256 |-> content]

\* Hash::to_string: the digest in lower-case hexadecimal, the file's name
Hash_to_string(hash) == [hex |-> hash.sha256]

\* File { content, hash }

\* faulty variant: only the low byte of the id is written
vertex_to_file_OneByte(vertex_id) ==
    LET content == LittleEndian(vertex_id % 256, 8)
    IN  [content |-> content, hash |-> Hash_from(content)]

vertex_to_file(vertex_id) ==
    LET content == LittleEndian(vertex_id, 8)
    IN  [content |-> content, hash |-> Hash_from(content)]

\* bincode::serialize of a Vec<Hash>: the length as a u64, then the digests
hash_vec_to_file(hash_vec) ==
    LET content == LittleEndian(Len(hash_vec), 8) \o hash_vec
    IN  [content |-> content, hash |-> Hash_from(content)]

file_to_vertex(file) ==
    IF Len(file.content) >= 8
    THEN Ok(FromLittleEndian(SubSeq(file.content, 1, 8)))
    ELSE Err("BinCodeError")

file_to_hash_vec(file) ==
    IF Len(file.content) >= 8
       /\ Len(file.content) >= 8 + FromLittleEndian(SubSeq(file.content, 1, 8))
    THEN Ok(SubSeq(file.content, 9, 8 + FromLittleEndian(SubSeq(file.content, 1, 8))))
    ELSE Err("BinCodeError")

\* the store: the directories that exist (the base path, vertex/ and
\* vertexvec/ below it) and, for each, the content of its files by name
Store_new ==
    [dirs |-> {}, base |-> EmptyMap, vertex |-> EmptyMap, vertexvec |-> EmptyMap]

\* what an input/output call may do: succeed, fail and change nothing, or
\* (a write) fail after the file was created or truncated
IoOutcomes == {"ok", "failed", "truncated"}

\* tokio_fs::create_dir_all
create_dir_all(fs, dir, io) ==
    IF io = "ok"
    THEN [files |-> [fs EXCEPT !.dirs = @ \cup {dir}], result |-> Ok(<<>>)]
    ELSE [files |-> fs, result |-> Err("IoError")]

\* write_file_in_dir: tokio_fs::write(dir_path.join(hash.to_string()), content)
write_file_in_dir(fs, dir, file, io) ==
    IF dir \notin fs.dirs \/ io = "failed"
    THEN [files |-> fs, result |-> Err("IoError")]
    ELSE IF io = "truncated"
    THEN [files |-> [fs EXCEPT ![dir] = MapInsert(@, Hash_to_string(file.hash), <<>>)],
          result |-> Err("IoError")]
    ELSE [files |-> [fs EXCEPT ![dir] = MapInsert(@, Hash_to_string(file.hash), file.content)],
          result |-> Ok(<<>>)]

\* read_file_in_dir: tokio_fs::read(dir_path.join(hash.to_string()))
read_file_in_dir(fs, dir, hash) ==
    IF dir \in fs.dirs /\ Hash_to_string(hash) \in DOMAIN fs[dir]
    THEN Ok([content |-> fs[dir][Hash_to_string(hash)], hash |-> hash])
    ELSE Err("IoError")

\* read_vertex_hash_vec
read_vertex_hash_vec(fs, hash) ==
    LET file == read_file_in_dir(fs, "vertexvec", hash)
    IN  IF file.ok THEN file_to_hash_vec(file.val) ELSE file

\* one of the futures of read_all_vertices_from_files
ReadVertex(fs, hash) ==
    LET file == read_file_in_dir(fs, "vertex", hash)
    IN  IF file.ok THEN file_to_vertex(file.val) ELSE file

\* read_all_vertices_from_files: join_all gives the vertices in the order of
\* the hashes, or an error when one of the reads gave one
read_all_vertices_from_files(fs, hash_vec) ==
    IF \A i \in DOMAIN hash_vec : ReadVertex(fs, hash_vec[i]).ok
    THEN Ok([i \in DOMAIN hash_vec |-> ReadVertex(fs, hash_vec[i]).val])
    ELSE Err("Error")

\* read_graph_vertices: the vertices read are added to the graph given
read_graph_vertices(fs, hash, g) ==
    LET hash_vec == read_vertex_hash_vec(fs, hash)
    IN  IF ~hash_vec.ok THEN Err("Error")
        ELSE LET read == read_all_vertices_from_files(fs, hash_vec.val)
             IN  IF ~read.ok THEN Err("Error")
                 ELSE Ok(AddVertices(g, read.val))

\* write_graph_vertices in flight: where its chain of futures stands, the
\* vertices it collected, the writes of join_all not yet done, the hash it
\* gave when it is done
Writer_idle == [pc |-> "idle", vertices |-> <<>>, pending |-> {}, hash |-> None]

\* faulty variant: join_all goes on after a write that failed
JoinAll_IgnoresError(pending, result) ==
    IF pending = {} THEN "create_vertexvec_dir" ELSE "write_vertices"

\* join_all(futs): an error as soon as one write fails, the hashes when all
\* are done
JoinAll(pending, result) ==
    IF ~result.ok THEN "failed"
    ELSE IF pending = {} THEN "create_vertexvec_dir"
    ELSE "write_vertices"

\* the Vec<Hash> that join_all gives: the hashes in the order of the vertices
HashVec(ids) == [i \in DOMAIN ids |-> vertex_to_file(ids[i]).hash]

\* ================================================================== actions
\* last: the operation just performed, its arguments, the state it was
\* called in and what it returned
Call(op, args, result) ==
    [op |-> op, args |-> args,
     before |-> [repository |-> repository, graph |-> graph],
     result |-> result]

Init ==
    /\ repository = Repository_new
    /\ graph = DirectedGraph_new
    /\ lists = [common |-> empty, l1 |-> empty, l2 |-> empty]
    /\ last = [op |-> "new", args |-> <<>>,
               before |-> [repository |-> Repository_new, graph |-> DirectedGraph_new],
               result |-> <<>>]
    /\ panicked = FALSE
    /\ btb = BTreeBag_new
    /\ files = Store_new
    /\ writer = Writer_idle

\* a hash no commit ever gets (every ItemCode is at least 1)
UnknownHashes == {0}

Commit ==
    /\ ~panicked
    /\ is_read_only(repository.current) \/ Cardinality(DOMAIN repository.commits) < MaxCommits
    /\ \E item \in Items, author \in Authors, comment \in Comments :
          LET r == commit(repository, item, author, comment)
          IN  /\ repository' = r.repository
              /\ last' = Call("commit", <<item, author, comment>>, r.result)
    /\ UNCHANGED <<graph, lists, btb, files, writer, panicked>>

TagRef ==
    /\ ~panicked
    /\ Len(repository.refs) < MaxRefs
    /\ \E n \in RefNames :
          LET r == tag(repository, n)
          IN  /\ repository' = r.repository
              /\ last' = Call("tag", <<n>>, r.result)
    /\ UNCHANGED <<graph, lists, btb, files, writer, panicked>>

BranchRef ==
    /\ ~panicked
    /\ Len(repository.refs) < MaxRefs
    /\ \E n \in RefNames :
          LET r == branch(repository, n)
          IN  /\ repository' = r.repository
              /\ last' = Call("branch", <<n>>, r.result)
    /\ UNCHANGED <<graph, lists, btb, files, writer, panicked>>

CheckoutTag ==
    /\ ~panicked
    /\ \E n \in RefNames :
          LET r == checkout_tag(repository, n)
          IN  /\ repository' = r.repository
              /\ last' = Call("checkout_tag", <<n>>, r.result)
    /\ UNCHANGED <<graph, lists, btb, files, writer, panicked>>

CheckoutBranch ==
    /\ ~panicked
    /\ \E n \in RefNames :
          LET r == checkout_branch(repository, n)
          IN  /\ repository' = r.repository
              /\ last' = Call("checkout_branch", <<n>>, r.result)
    /\ UNCHANGED <<graph, lists, btb, files, writer, panicked>>

CheckoutHash ==
    /\ ~panicked
    /\ \E hash \in DOMAIN repository.commits \cup UnknownHashes :
          LET r == checkout_hash(repository, hash)
          IN  /\ repository' = r.repository
              /\ last' = Call("checkout_hash", <<hash>>, r.result)
    /\ UNCHANGED <<graph, lists, btb, files, writer, panicked>>

\* commits() reads only; a panic ends the program
Commits ==
    /\ ~panicked
    /\ LET r == commits(repository)
       IN  /\ last' = Call("commits", <<>>, r)
           /\ panicked' = r.panic
    /\ UNCHANGED <<repository, graph, lists, btb, files, writer>>

Next ==
    \/ Commit
    \/ TagRef
    \/ BranchRef
    \/ CheckoutTag
    \/ CheckoutBranch
    \/ CheckoutHash
    \/ Commits

Spec == Init /\ [][Next]_vars

\* ------------------------------------------- a repository with two committers
\* the authors and comments of the commits of two people on the same
\* repository
CommitAuthors == {"ann", "bob"}
CommitComments == {"msg", "again"}

CommitAs ==
    /\ ~panicked
    /\ Cardinality(DOMAIN repository.commits) < MaxCommits
    /\ \E item \in Items, author \in CommitAuthors, comment \in CommitComments :
          LET r == commit(repository, item, author, comment)
          IN  /\ repository' = r.repository
              /\ last' = Call("commit", <<item, author, comment>>, r.result)
    /\ UNCHANGED <<graph, lists, btb, files, writer, panicked>>

NextAuthors ==
    \/ CommitAs
    \/ BranchRef
    \/ CheckoutBranch

SpecAuthors == Init /\ [][NextAuthors]_vars

\* ------------------------------------------------ HistorizedGraph as a whole
HG == [repository |-> repository, graph |-> graph]

\* the arguments offered to the HistorizedGraph mutators
RemovedVertexIds == {1}
AddedEdges == {Edge(0, 1), Edge(1, 1)}
RemovedEdges == {Edge(0, 1), Edge(1, 1)}

\* CommandHasher::hash as it stands is unimplemented!(): a mutator called on
\* a writable reference panics inside commit, before anything is written
CommandHasher_hash_panics(op, args) ==
    /\ ~is_read_only(repository.current)
    /\ panicked' = TRUE
    /\ last' = Call(op, args, "unimplemented")
    /\ UNCHANGED <<repository, graph>>

AddVertexHG ==
    /\ ~panicked
    /\ is_read_only(repository.current) \/ Cardinality(DOMAIN repository.commits) < MaxCommits
    /\ \E v \in VertexIds :
          \/ LET r == HistorizedGraph_add_vertex(HG, v)
             IN  /\ repository' = r.repository
                 /\ graph' = r.graph
                 /\ last' = Call("add_vertex", <<v>>, r.result)
                 /\ UNCHANGED panicked
          \/ CommandHasher_hash_panics("add_vertex", <<v>>)
    /\ UNCHANGED <<lists, btb, files, writer>>

RemoveVertexHG ==
    /\ ~panicked
    /\ is_read_only(repository.current) \/ Cardinality(DOMAIN repository.commits) < MaxCommits
    /\ \E v \in RemovedVertexIds :
          \/ LET r == HistorizedGraph_remove_vertex(HG, v)
             IN  /\ repository' = r.repository
                 /\ graph' = r.graph
                 /\ last' = Call("remove_vertex", <<v>>, r.result)
                 /\ UNCHANGED panicked
          \/ CommandHasher_hash_panics("remove_vertex", <<v>>)
    /\ UNCHANGED <<lists, btb, files, writer>>

AddEdgeHG ==
    /\ ~panicked
    /\ is_read_only(repository.current) \/ Cardinality(DOMAIN repository.commits) < MaxCommits
    /\ \E edge \in AddedEdges :
          \/ LET r == HistorizedGraph_add_edge(HG, edge)
             IN  /\ repository' = r.repository
                 /\ graph' = r.graph
                 /\ last' = Call("add_edge", <<edge>>, r.result)
                 /\ UNCHANGED panicked
          \/ CommandHasher_hash_panics("add_edge", <<edge>>)
    /\ UNCHANGED <<lists, btb, files, writer>>

RemoveEdgeHG ==
    /\ ~panicked
    /\ is_read_only(repository.current) \/ Cardinality(DOMAIN repository.commits) < MaxCommits
    /\ \E edge \in RemovedEdges :
          \/ LET r == HistorizedGraph_remove_edge(HG, edge)
             IN  /\ repository' = r.repository
                 /\ graph' = r.graph
                 /\ last' = Call("remove_edge", <<edge>>, r.result)
                 /\ UNCHANGED panicked
          \/ CommandHasher_hash_panics("remove_edge", <<edge>>)
    /\ UNCHANGED <<lists, btb, files, writer>>

\* a HistorizedGraph used through its own methods: the four mutators, on the
\* branch it was created on (its repository is a private field)
NextHGMutators ==
    \/ AddVertexHG
    \/ RemoveVertexHG
    \/ AddEdgeHG
    \/ RemoveEdgeHG

SpecHGMutators == Init /\ [][NextHGMutators]_vars

\* the repository of the HistorizedGraph is tagged under one name
TagNamesHG == {"dev"}

TagHG ==
    /\ ~panicked
    /\ Len(repository.refs) < MaxRefs
    /\ \E n \in TagNamesHG :
          LET r == tag(repository, n)
          IN  /\ repository' = r.repository
              /\ last' = Call("tag", <<n>>, r.result)
    /\ UNCHANGED <<graph, lists, btb, files, writer, panicked>>

NextHG ==
    \/ AddVertexHG
    \/ RemoveVertexHG
    \/ AddEdgeHG
    \/ RemoveEdgeHG
    \/ TagHG
    \/ CheckoutTag
    \/ CheckoutBranch
    \/ CheckoutHash

SpecHG == Init /\ [][NextHG]_vars

\* ------------------------------------------- two chains over a common chain
\* lists.l1 and lists.l2 are built by cons on top of lists.common, every
\* hash new
FreshHash == Len(lists.l1) + Len(lists.l2) - Len(lists.common) + 1

ConsCommon ==
    /\ ~panicked
    /\ lists.l1 = lists.common /\ lists.l2 = lists.common
    /\ Len(lists.common) < MaxChain
    /\ LET l == cons(FreshHash, lists.common)
       IN  lists' = [common |-> l, l1 |-> l, l2 |-> l]
    /\ UNCHANGED <<repository, graph, last, panicked, btb, files, writer>>

ConsFirst ==
    /\ ~panicked
    /\ Len(lists.l1) - Len(lists.common) < MaxChain
    /\ lists' = [lists EXCEPT !.l1 = cons(FreshHash, lists.l1)]
    /\ UNCHANGED <<repository, graph, last, panicked, btb, files, writer>>

ConsSecond ==
    /\ ~panicked
    /\ Len(lists.l2) - Len(lists.common) < MaxChain
    /\ lists' = [lists EXCEPT !.l2 = cons(FreshHash, lists.l2)]
    /\ UNCHANGED <<repository, graph, last, panicked, btb, files, writer>>

FirstCommon ==
    /\ ~panicked
    /\ last' = Call("first_common", <<lists.l1, lists.l2, lists.common>>,
                    first_common(lists.l1, lists.l2))
    /\ UNCHANGED <<repository, graph, lists, btb, files, writer, panicked>>

FirstCommonSwapped ==
    /\ ~panicked
    /\ last' = Call("first_common", <<lists.l2, lists.l1, lists.common>>,
                    first_common(lists.l2, lists.l1))
    /\ UNCHANGED <<repository, graph, lists, btb, files, writer, panicked>>

\* a chain iterated to its end, twice from iter()
IterChain ==
    /\ ~panicked
    /\ \E list \in {lists.l1, lists.l2} :
          LET first == HashListIter_drain(iter(list))
              again == HashListIter_drain(iter(list))
          IN  /\ last' = Call("iter", <<list>>,
                              IF first.panic THEN <<first>> ELSE <<first, again>>)
              /\ panicked' = (first.panic \/ again.panic)
    /\ UNCHANGED <<repository, graph, lists, btb, files, writer>>

\* the hashes a predicate |x| x != &hash is built from: those of the chain
\* and one that is in no chain
PredicateHashes(list) == {0} \cup {list[i] : i \in 1..Len(list)}

\* take_while and skip_while of a chain under the same predicate
TakeSkipWhile ==
    /\ ~panicked
    /\ \E list \in {lists.l1, lists.l2} :
          \E hash \in PredicateHashes(list) :
             last' = Call("take_skip_while", <<list, hash>>,
                          [take |-> take_while(list, NotHash(hash)),
                           skip |-> skip_while(list, NotHash(hash))])
    /\ UNCHANGED <<repository, graph, lists, btb, files, writer, panicked>>

NextChains ==
    \/ ConsCommon
    \/ ConsFirst
    \/ ConsSecond
    \/ FirstCommon
    \/ FirstCommonSwapped
    \/ IterChain
    \/ TakeSkipWhile

SpecChains == Init /\ [][NextChains]_vars

\* ------------------------------------------- DirectedGraph used on its own
GraphVertexIds == {0, 1, 2}

GraphEdges == {Edge(v1, v2) : v1, v2 \in GraphVertexIds}

GraphCommands ==
    {AddVertex(v) : v \in GraphVertexIds} \cup {RemoveVertex(v) : v \in GraphVertexIds} \cup
    {AddEdge(e[1], e[2]) : e \in GraphEdges} \cup {RemoveEdge(e[1], e[2]) : e \in GraphEdges}

AddVertexG ==
    /\ \E v \in GraphVertexIds :
          LET r == add_vertex(graph, v)
          IN  /\ graph' = r.graph
              /\ last' = Call("add_vertex", <<v>>, r.result)
    /\ UNCHANGED <<repository, lists, btb, files, writer, panicked>>

RemoveVertexG ==
    /\ \E v \in GraphVertexIds :
          LET r == remove_vertex(graph, v)
          IN  /\ graph' = r.graph
              /\ last' = Call("remove_vertex", <<v>>, r.result)
    /\ UNCHANGED <<repository, lists, btb, files, writer, panicked>>

AddEdgeG ==
    /\ \E e \in GraphEdges :
          LET r == add_edge(graph, e)
          IN  /\ graph' = r.graph
              /\ last' = Call("add_edge", <<e>>, r.result)
    /\ UNCHANGED <<repository, lists, btb, files, writer, panicked>>

RemoveEdgeG ==
    /\ \E e \in GraphEdges :
          LET r == remove_edge(graph, e)
          IN  /\ graph' = r.graph
              /\ last' = Call("remove_edge", <<e>>, r.result)
    /\ UNCHANGED <<repository, lists, btb, files, writer, panicked>>

\* as_commands(&graph) followed by apply_commands(commands, &mut DirectedGraph::new())
AsCommandsG ==
    /\ \E order \in IterOrders(DOMAIN graph) :
          LET commands == as_commands(graph, order)
          IN  last' = Call("as_commands", <<order>>,
                           [commands |-> commands,
                            graph |-> apply_commands(commands, DirectedGraph_new)])
    /\ UNCHANGED <<repository, graph, lists, btb, files, writer, panicked>>

\* (&graph).into() followed by DirectedGraph::from(&graph_ser), as in test_small
SerDeG ==
    /\ \E order \in IterOrders(DOMAIN graph) :
          LET graph_ser == DirectedGraphSer_from(graph, order)
          IN  last' = Call("ser_de", <<order>>,
                           [graph_ser |-> graph_ser, graph |-> DirectedGraph_from(graph_ser)])
    /\ UNCHANGED <<repository, graph, lists, btb, files, writer, panicked>>

NextGraph ==
    \/ AddVertexG
    \/ RemoveVertexG
    \/ AddEdgeG
    \/ RemoveEdgeG
    \/ AsCommandsG
    \/ SerDeG

SpecGraph == Init /\ [][NextGraph]_vars

\* ------------------------------------- GraphCommand applied to any graph
\* the commands offered to apply_to and apply_commands
AppliedCommands ==
    {AddVertex(0), AddVertex(1), RemoveVertex(1),
     AddEdge(0, 1), AddEdge(1, 0), AddEdge(1, 1), RemoveEdge(0, 1)}

AppliedSeqs == UNION {[1..n -> AppliedCommands] : n \in 0..MaxCommands}

\* command.apply_to(&mut graph)
ApplyTo ==
    /\ \E command \in AppliedCommands :
          LET r == apply_to(command, graph)
          IN  /\ graph' = r.graph
              /\ last' = Call("apply_to", <<command>>, r.result)
    /\ UNCHANGED <<repository, lists, btb, files, writer, panicked>>

\* command.apply_to(&mut graph) followed by
\* GraphCommand::revert(command).apply_to(&mut graph)
ApplyAndRevert ==
    /\ \E command \in AppliedCommands :
          LET applied == apply_to(command, graph)
              reverted == apply_to(revert(command), applied.graph)
          IN  /\ graph' = reverted.graph
              /\ last' = Call("apply_revert", <<command>>,
                              <<applied.result, reverted.result>>)
    /\ UNCHANGED <<repository, lists, btb, files, writer, panicked>>

\* GraphCommand::apply_commands(commands, &mut graph), on a graph that the
\* other calls built
ApplyCommands ==
    /\ last.op \in {"new", "apply_to", "apply_revert"}
    /\ \E commands \in AppliedSeqs :
          /\ graph' = apply_commands(commands, graph)
          /\ last' = Call("apply_commands", <<commands>>, <<>>)
    /\ UNCHANGED <<repository, lists, btb, files, writer, panicked>>

NextApply ==
    \/ ApplyTo
    \/ ApplyAndRevert
    \/ ApplyCommands

SpecApply == Init /\ [][NextApply]_vars

\* ------------------------------------------- the diff of two graphs, applied
\* diff(g1, g2).as_commands() applied to (a copy of) g1, and the reverse of
\* the diff applied to g2; the two graphs are the one before the last call
\* and the one after it
DiffPatch ==
    /\ last.op # "diff"
    /\ \E pair \in {<<last.before.graph, graph>>, <<graph, last.before.graph>>} :
          \E d \in diff(pair[1], pair[2]) :
             last' = Call("diff", <<pair[1], pair[2], d>>,
                          [patched |-> apply_commands(StructureDiff_as_commands(d), pair[1]),
                           reversed |-> apply_commands(
                                StructureDiff_as_commands(StructureDiff_reverse(d)), pair[2])])
    /\ UNCHANGED <<repository, graph, lists, btb, files, writer, panicked>>

NextDiff ==
    \/ ApplyTo
    \/ ApplyCommands
    \/ DiffPatch

SpecDiff == Init /\ [][NextDiff]_vars

\* ------------------- GraphCommand: two graphs built from the same insertions
AddCommands ==
    {AddVertex(v) : v \in GraphVertexIds} \cup
    {AddEdge(0, 1), AddEdge(1, 2), AddEdge(2, 2)}

CommandSeqs == UNION {[1..n -> AddCommands] : n \in 0..MaxCommands}

Permuted(commands, perm) == [i \in DOMAIN commands |-> commands[perm[i]]]

\* the graph built and what its hash() writes
Built(commands) ==
    LET g == apply_commands(commands, DirectedGraph_new)
    IN  [graph |-> g, hash |-> DirectedGraph_hash(g)]

\* test_hash, for any insertions and any second order of them; both graphs
\* start from DirectedGraph::new()
HashPermuted ==
    /\ graph = DirectedGraph_new
    /\ \E commands \in CommandSeqs :
          \E perm \in IterOrders(DOMAIN commands) :
             /\ graph' = Built(commands).graph
             /\ last' = Call("hash", <<commands, Permuted(commands, perm)>>,
                             <<Built(commands), Built(Permuted(commands, perm))>>)
    /\ UNCHANGED <<repository, lists, btb, files, writer, panicked>>

Revert ==
    /\ \E command \in GraphCommands :
          last' = Call("revert", <<command>>, revert(command))
    /\ UNCHANGED <<repository, graph, lists, btb, files, writer, panicked>>

NextCommands ==
    \/ HashPermuted
    \/ Revert

SpecCommands == Init /\ [][NextCommands]_vars

\* ------------------------------------------------- BTreeBag used on its own
BagItems == {Edge(0, 0), Edge(0, 1), Edge(1, 0), Edge(1, 1)}

InsertBag ==
    /\ BTreeBag_len(btb) < MaxBag
    /\ \E t \in BagItems :
          /\ btb' = BTreeBag_insert(btb, t)
          /\ last' = Call("bag_insert", <<t>>, <<>>)
    /\ UNCHANGED <<repository, graph, lists, panicked, files, writer>>

RemoveBag ==
    /\ \E t \in BagItems :
          LET r == BTreeBag_remove(btb, t)
          IN  /\ btb' = r.bag
              /\ last' = Call("bag_remove", <<t>>, r.removed)
    /\ UNCHANGED <<repository, graph, lists, panicked, files, writer>>

NextBag ==
    \/ InsertBag
    \/ RemoveBag

SpecBag == Init /\ [][NextBag]_vars

\* ------------------------------------------------ the graph's vertices, stored
\* the ids of the vertices stored; 300 takes two bytes
StoredVertexIds == {1, 300}

AddVertexStored ==
    /\ \E v \in StoredVertexIds :
          LET r == add_vertex(graph, v)
          IN  /\ graph' = r.graph
              /\ last' = Call("add_vertex", <<v>>, r.result)
    /\ UNCHANGED <<repository, lists, panicked, btb, files, writer>>

\* test_write_and_read_vertex: write_file_in_dir(&path, file) and then
\* read_file_in_dir(&path, hash), then file_to_vertex
WriteReadVertex ==
    /\ \E v \in StoredVertexIds, io \in IoOutcomes :
          LET file == vertex_to_file(v)
              written == write_file_in_dir(files, "base", file, io)
              read == read_file_in_dir(written.files, "base", file.hash)
          IN  /\ files' = written.files
              /\ last' = Call("write_read_vertex", <<v>>,
                              IF ~written.result.ok THEN written.result
                              ELSE IF ~read.ok THEN read
                              ELSE file_to_vertex(read.val))
    /\ UNCHANGED <<repository, graph, lists, panicked, btb, writer>>

\* write_graph_vertices(base_path, &graph): the vertices are collected when
\* it is called, in the order the map gives them
WriteGraphVertices ==
    /\ writer.pc = "idle"
    /\ \E order \in IterOrders(DOMAIN graph) :
          writer' = [pc |-> "create_base_dir", vertices |-> vertices(graph, order),
                     pending |-> {}, hash |-> None]
    /\ UNCHANGED <<repository, graph, lists, last, panicked, btb, files>>

\* the operation ends with an error
WriteFailed == Call("write_graph_vertices", <<writer.vertices>>, Err("IoError"))

\* tokio_fs::create_dir_all(base_path)
CreateBaseDir ==
    /\ writer.pc = "create_base_dir"
    /\ \E io \in {"ok", "failed"} :
          LET r == create_dir_all(files, "base", io)
          IN  /\ files' = r.files
              /\ IF r.result.ok
                 THEN /\ writer' = [writer EXCEPT !.pc = "create_vertex_dir"]
                      /\ UNCHANGED last
                 ELSE /\ writer' = Writer_idle
                      /\ last' = WriteFailed
    /\ UNCHANGED <<repository, graph, lists, panicked, btb>>

\* write_all_vertices_to_files: tokio_fs::create_dir_all(base_path/vertex),
\* and then join_all over one write for each vertex
CreateVertexDir ==
    /\ writer.pc = "create_vertex_dir"
    /\ \E io \in {"ok", "failed"} :
          LET r == create_dir_all(files, "vertex", io)
          IN  /\ files' = r.files
              /\ IF r.result.ok
                 THEN /\ writer' = [writer EXCEPT
                                      !.pc = JoinAll(DOMAIN writer.vertices, r.result),
                                      !.pending = DOMAIN writer.vertices]
                      /\ UNCHANGED last
                 ELSE /\ writer' = Writer_idle
                      /\ last' = WriteFailed
    /\ UNCHANGED <<repository, graph, lists, panicked, btb>>

\* one of the writes of join_all comes to its end, in any order
WriteVertexFile ==
    /\ writer.pc = "write_vertices"
    /\ \E i \in writer.pending, io \in IoOutcomes :
          LET r == write_file_in_dir(files, "vertex", vertex_to_file(writer.vertices[i]), io)
              pc == JoinAll(writer.pending \ {i}, r.result)
          IN  /\ files' = r.files
              /\ IF pc = "failed"
                 THEN /\ writer' = Writer_idle
                      /\ last' = WriteFailed
                 ELSE /\ writer' = [writer EXCEPT !.pc = pc, !.pending = @ \ {i}]
                      /\ UNCHANGED last
    /\ UNCHANGED <<repository, graph, lists, panicked, btb>>

\* write_vertex_hash_vec_file: tokio_fs::create_dir_all(base_path/vertexvec)
CreateVertexVecDir ==
    /\ writer.pc = "create_vertexvec_dir"
    /\ \E io \in {"ok", "failed"} :
          LET r == create_dir_all(files, "vertexvec", io)
          IN  /\ files' = r.files
              /\ IF r.result.ok
                 THEN /\ writer' = [writer EXCEPT !.pc = "write_vertexvec"]
                      /\ UNCHANGED last
                 ELSE /\ writer' = Writer_idle
                      /\ last' = WriteFailed
    /\ UNCHANGED <<repository, graph, lists, panicked, btb>>

\* and then write_file_in_dir(&path, file); the future gives the file's hash
WriteVertexVecFile ==
    /\ writer.pc = "write_vertexvec"
    /\ \E io \in IoOutcomes :
          LET file == hash_vec_to_file(HashVec(writer.vertices))
              r == write_file_in_dir(files, "vertexvec", file, io)
          IN  /\ files' = r.files
              /\ IF r.result.ok
                 THEN /\ writer' = [writer EXCEPT !.pc = "done", !.hash = Some(file.hash)]
                      /\ last' = Call("write_graph_vertices", <<writer.vertices>>,
                                      Ok(file.hash))
                 ELSE /\ writer' = Writer_idle
                      /\ last' = WriteFailed
    /\ UNCHANGED <<repository, graph, lists, panicked, btb>>

\* test_write_and_read_graph_vertices: and then read_graph_vertices(path,
\* hash, DirectedGraph::new())
ReadGraphVertices ==
    /\ writer.pc = "done"
    /\ last' = Call("read_graph_vertices", <<writer.hash[1], writer.vertices>>,
                    read_graph_vertices(files, writer.hash[1], DirectedGraph_new))
    /\ writer' = Writer_idle
    /\ UNCHANGED <<repository, graph, lists, panicked, btb, files>>

NextStore ==
    \/ AddVertexStored
    \/ WriteReadVertex
    \/ WriteGraphVertices
    \/ CreateBaseDir
    \/ CreateVertexDir
    \/ WriteVertexFile
    \/ CreateVertexVecDir
    \/ WriteVertexVecFile
    \/ ReadGraphVertices

SpecStore == Init /\ [][NextStore]_vars

\* =================================================================== claims
\* the repository the last operation was called on
Before == last.before.repository

\* every reference the repository holds: the current one and the registered
AllRefs(repo) == {repo.current} \cup {repo.refs[i] : i \in 1..Len(repo.refs)}

\* C1: commit on a Tag or Detached current reference returns an error that
\* carries the reference's name and leaves the commit table, the current
\* reference and the registered references as they were.
C1_ReadOnlyCommitFails ==
    (last.op = "commit" /\ Before.current.kind \in {"Tag", "Detached"})
    => /\ ~last.result.ok
       /\ last.result.val = <<"Cannot modify Reference", name(Before.current)>>
       /\ repository.commits = Before.commits
       /\ repository.current = Before.current
       /\ Len(hashs(repository.current)) = Len(hashs(Before.current))
       /\ repository.refs = Before.refs

\* a commit attempted on a Detached reference with history behind it
C1_Witness ==
    /\ last.op = "commit"
    /\ Before.current.kind = "Detached"
    /\ Before.current.hashs # <<>>
    /\ ~last.result.ok

\* a repository that only ever saw successful commits on its first branch
OnlyCommitted(repo) ==
    /\ repo.current.kind = "Branch"
    /\ repo.refs = <<Branch(empty, "master")>>
    /\ Cardinality(DOMAIN repo.commits) = Len(hashs(repo.current))

\* C2: after N successful commits on the branch of a new repository,
\* commits() returns the N commit records, most recent first, and the
\* current chain has length N.
C2_CommitsReturnsHistory ==
    (last.op = "commits" /\ OnlyCommitted(Before))
    => /\ ~last.result.panic
       /\ Len(last.result.items) = Len(hashs(Before.current))
       /\ \A i \in 1..Len(last.result.items) :
             last.result.items[i] = Before.commits[hashs(Before.current)[i]]

\* C3: commit on a Branch hashes the item with the head of the current
\* chain (none when empty), stores the Commit under that hash and makes
\* current the Branch of the same name whose chain is the hash prepended to
\* the previous chain; the returned Ref is the new current.
C3_CommitAdvancesBranch ==
    (last.op = "commit" /\ Before.current.kind = "Branch")
    => LET item == last.args[1]
           prev == hashs(Before.current)
           hash == Hasher(item, IF prev = <<>> THEN None ELSE Some(prev[1]))
       IN  /\ last.result.ok
           /\ last.result.val = repository.current
           /\ repository.current.kind = "Branch"
           /\ repository.current.name = Before.current.name
           /\ Len(hashs(repository.current)) = Len(prev) + 1
           /\ Head(hashs(repository.current)) = hash
           /\ Tail(hashs(repository.current)) = prev
           /\ DOMAIN repository.commits = DOMAIN Before.commits \cup {hash}
           /\ repository.commits[hash] =
                 [author |-> last.args[2], comment |-> last.args[3],
                  hash |-> hash, item |-> item]
           /\ \A h \in DOMAIN Before.commits \ {hash} :
                 repository.commits[h] = Before.commits[h]

\* a successful commit on top of an earlier commit
C3_Witness ==
    /\ last.op = "commit"
    /\ Before.current.kind = "Branch"
    /\ hashs(Before.current) # <<>>
    /\ last.result.ok

\* C4: every hash in the chain of the current reference or of a registered
\* reference is a key of the commit table.
C4_NoDanglingHash ==
    \A r \in AllRefs(repository) :
       \A i \in 1..Len(hashs(r)) : find_commit(repository, hashs(r)[i]) # None

\* a detached current reference and a registered tag, both with history
C4_Witness ==
    /\ repository.current.kind = "Detached"
    /\ hashs(repository.current) # <<>>
    /\ \E i \in 1..Len(repository.refs) :
          repository.refs[i].kind = "Tag" /\ Len(hashs(repository.refs[i])) = MaxCommits

\* the HistorizedGraph mutators, the command each commits and the
\* DirectedGraph mutator each applies
MutatorOps == {"add_vertex", "remove_vertex", "add_edge", "remove_edge"}

CommandOfCall ==
    CASE last.op = "add_vertex" -> AddVertex(last.args[1])
      [] last.op = "remove_vertex" -> RemoveVertex(last.args[1])
      [] last.op = "add_edge" -> AddEdge(last.args[1][1], last.args[1][2])
      [] last.op = "remove_edge" -> RemoveEdge(last.args[1][1], last.args[1][2])

MutatorOfCall(g) ==
    CASE last.op = "add_vertex" -> add_vertex(g, last.args[1])
      [] last.op = "remove_vertex" -> remove_vertex(g, last.args[1])
      [] last.op = "add_edge" -> add_edge(g, last.args[1])
      [] last.op = "remove_edge" -> remove_edge(g, last.args[1])

\* C5: each HistorizedGraph mutator first commits its single Command; when
\* that commit fails (the current reference is read-only) the Multigraph is
\* untouched and the call returns false (it is untouched too when the
\* placeholder hasher panics); the Multigraph mutator runs only after a
\* successful commit, which is then the head of the current chain.
C5_CommitBeforeMutation ==
    last.op \in MutatorOps
    => IF panicked \/ is_read_only(Before.current)
       THEN /\ graph = last.before.graph
            /\ repository = Before
            /\ ~panicked => last.result = FALSE
       ELSE /\ hashs(repository.current) # <<>>
            /\ Tail(hashs(repository.current)) = hashs(Before.current)
            /\ LET c == repository.commits[Head(hashs(repository.current))]
               IN  /\ c.item = <<CommandOfCall>>
                   /\ c.author = "auto"
                   /\ c.comment = "auto"
            /\ graph = MutatorOfCall(last.before.graph).graph
            /\ last.result = MutatorOfCall(last.before.graph).result

\* add_vertex of an absent vertex refused on a read-only reference, the
\* graph already holding something
C5_Witness ==
    /\ last.op = "add_vertex"
    /\ is_read_only(Before.current)
    /\ last.before.graph # DirectedGraph_new
    /\ last.args[1] \notin DOMAIN last.before.graph
    /\ ~panicked
    /\ last.result = FALSE

\* does hash occur in the chain
Occurs(list, hash) == \E i \in 1..Len(list) : list[i] = hash

\* the suffix of the chain that starts at (and includes) the first hash
RECURSIVE SuffixFrom(_, _)
SuffixFrom(list, hash) ==
    IF list = <<>> \/ Head(list) = hash THEN list ELSE SuffixFrom(Tail(list), hash)

\* C6: checkout_hash of a hash that occurs in the current chain succeeds and
\* makes current the Detached reference whose chain is the suffix of the
\* previous chain starting at that hash, whatever its position.
C6_CheckoutHashSuffix ==
    (last.op = "checkout_hash" /\ Occurs(hashs(Before.current), last.args[1]))
    => /\ last.result.ok
       /\ repository.current = Detached(SuffixFrom(hashs(Before.current), last.args[1]))
       /\ last.result.val = repository.current

\* C7: checkout_hash of a hash that does not occur in the current chain
\* returns an error and leaves the current reference unchanged, whatever
\* the length of the chain.
C7_CheckoutUnknownHashFails ==
    (last.op = "checkout_hash" /\ ~Occurs(hashs(Before.current), last.args[1]))
    => /\ ~last.result.ok
       /\ repository.current = Before.current

\* the registered references of a kind and name, by position
Registered(repo, kind, n) ==
    {i \in 1..Len(repo.refs) : repo.refs[i].kind = kind /\ repo.refs[i].name = n}

CheckoutKind == IF last.op = "checkout_tag" THEN "Tag" ELSE "Branch"

\* C8: checkout_tag / checkout_branch of a name with no registered
\* reference of that kind returns a not-found error and changes nothing;
\* otherwise current becomes the (first) registered reference of that kind
\* and name; the reference list and the commit table stay as they were.
C8_CheckoutByName ==
    last.op \in {"checkout_tag", "checkout_branch"}
    => LET hits == Registered(Before, CheckoutKind, last.args[1])
       IN  /\ repository.refs = Before.refs
           /\ repository.commits = Before.commits
           /\ IF hits = {}
              THEN /\ ~last.result.ok
                   /\ last.result.val[2] = last.args[1]
                   /\ repository.current = Before.current
              ELSE /\ last.result.ok
                   /\ \E i \in hits :
                         /\ \A j \in hits : i <= j
                         /\ repository.current = Before.refs[i]
                   /\ last.result.val = repository.current

\* checkout_tag of a name registered as a Branch only: not found
C8_Witness ==
    /\ last.op = "checkout_tag"
    /\ Registered(Before, "Tag", last.args[1]) = {}
    /\ Registered(Before, "Branch", last.args[1]) # {}
    /\ Registered(Before, "Tag", "dev") # {}
    /\ ~last.result.ok

\* C9: tag and branch append a reference of their kind, holding the chain
\* of the current reference at the call, to the registered references, and
\* leave the current reference and the commit table unchanged.
C9_TagBranchSnapshot ==
    last.op \in {"tag", "branch"}
    => LET r == IF last.op = "tag"
                THEN Tag(hashs(Before.current), last.args[1])
                ELSE Branch(hashs(Before.current), last.args[1])
       IN  /\ repository.refs = Append(Before.refs, r)
           /\ last.result = r
           /\ repository.current = Before.current
           /\ repository.commits = Before.commits

\* a branch created under another name while on a chain with history
C9_Witness ==
    /\ last.op = "branch"
    /\ hashs(Before.current) # <<>>
    /\ last.args[1] # name(Before.current)
    /\ Len(repository.refs) = Len(Before.refs) + 1

\* C10: for two chains built by prepending k1 and k2 distinct hashes on a
\* common chain of length k0, first_common (in either order) is the head of
\* the common chain, and none when k0 = 0.
C10_MergeBase ==
    last.op = "first_common"
    => last.result = (IF last.args[3] = <<>> THEN None ELSE Some(Head(last.args[3])))

\* ------------------------------------------------------ DirectedGraph claims
BeforeGraph == last.before.graph

\* how many times x occurs in the sequence
Count(seq, x) == Cardinality({i \in DOMAIN seq : seq[i] = x})

\* C11: in every graph reached by add_vertex, remove_vertex, add_edge and
\* remove_edge, every edge Edge(v1,v2) that contains_edge reports occurs in
\* outbound_edges(v1) and in inbound_edges(v2), the same number of times;
\* and every edge held in a vertex's incident multiset is such an edge of
\* that vertex.
C11_DoubleIndexing ==
    /\ \A e \in GraphEdges :
          contains_edge(graph, e)
          => /\ Count(outbound_edges(graph, e[1]), e) >= 1
             /\ Count(outbound_edges(graph, e[1]), e) = Count(inbound_edges(graph, e[2]), e)
    /\ \A v \in DOMAIN graph : \A e \in DOMAIN graph[v] :
          v \in {e[1], e[2]} /\ contains_edge(graph, e)

\* a vertex with edges was removed and an edge and a self-loop remain
C11_Witness ==
    /\ last.op = "remove_vertex"
    /\ last.result
    /\ BeforeGraph[last.args[1]] # BTreeBag_new
    /\ \E e \in GraphEdges : e[1] # e[2] /\ contains_edge(graph, e)
    /\ \E v \in GraphVertexIds : contains_edge(graph, Edge(v, v))

\* C12: two graphs built from DirectedGraph::new() by the same add_vertex and
\* add_edge calls, made in two different orders, are equal and write the same
\* values to the hasher.
C12_OrderIndependent ==
    last.op = "hash"
    => /\ last.result[1].graph = last.result[2].graph
       /\ last.result[1].hash = last.result[2].hash

\* three insertions, vertices and edges among them, taken in another order
C12_Witness ==
    /\ last.op = "hash"
    /\ Len(last.args[1]) = MaxCommands
    /\ last.args[1] # last.args[2]
    /\ \E i, j \in DOMAIN last.args[1] :
          last.args[1][i][1] = "AddVertex" /\ last.args[1][j][1] = "AddEdge"
    /\ edge_count(graph) >= 1
    /\ last.result[1].graph = graph

\* C13: for every graph G reached through add_vertex, remove_vertex, add_edge
\* and remove_edge, whatever the order in which the HashMap is iterated,
\* applying as_commands(G) in order to DirectedGraph::new() gives a graph
\* equal to G.
C13_CommandRoundTrip ==
    last.op = "as_commands" => last.result.graph = graph

\* G has an isolated vertex, a self-loop and an edge between two vertices,
\* and its vertices are not iterated in increasing order
C13_Witness ==
    /\ last.op = "as_commands"
    /\ \E v \in DOMAIN graph : graph[v] = BTreeBag_new
    /\ \E v \in DOMAIN graph : contains_edge(graph, Edge(v, v))
    /\ \E e \in GraphEdges : e[1] # e[2] /\ contains_edge(graph, e)
    /\ last.args[1][1] > last.args[1][2]
    /\ Len(last.result.commands) = vertex_count(graph) + 2 * edge_count(graph)

\* the variant that undoes a variant of GraphCommand
InverseKind(kind) ==
    CASE kind = "AddVertex" -> "RemoveVertex"
      [] kind = "RemoveVertex" -> "AddVertex"
      [] kind = "AddEdge" -> "RemoveEdge"
      [] kind = "RemoveEdge" -> "AddEdge"

\* C14: revert(c) is the inverse variant of c (AddVertex <-> RemoveVertex,
\* AddEdge <-> RemoveEdge) with the operands of c, and reverting the result
\* gives c back.
C14_RevertInvolution ==
    last.op = "revert"
    => LET c == last.args[1]
           r == last.result
       IN  /\ r[1] = InverseKind(c[1])
           /\ Tail(r) = Tail(c)
           /\ revert(r) = c

\* an edge removal between two different vertices was reverted
C14_Witness ==
    /\ last.op = "revert"
    /\ last.args[1][1] = "RemoveEdge"
    /\ last.args[1][2] # last.args[1][3]
    /\ last.result = AddEdge(last.args[1][2], last.args[1][3])

\* the entries of a bag whose edge does not mention the vertex
WithoutVertex(bag, vertex_id) ==
    [e \in {x \in DOMAIN bag : x[1] # vertex_id /\ x[2] # vertex_id} |-> bag[e]]

\* C15: remove_vertex(id) returns true iff id was present; then the vertex
\* entry is gone, every other vertex stays and keeps exactly its edges that
\* do not mention id; when id was absent it returns false and the graph is
\* unchanged.
C15_RemoveVertex ==
    last.op = "remove_vertex"
    => LET id == last.args[1]
       IN  IF contains_vertex(BeforeGraph, id)
           THEN /\ last.result = TRUE
                /\ DOMAIN graph = DOMAIN BeforeGraph \ {id}
                /\ \A v \in DOMAIN graph : graph[v] = WithoutVertex(BeforeGraph[v], id)
           ELSE /\ last.result = FALSE
                /\ graph = BeforeGraph

\* vertex 1 was removed from the path 0 -> 1 -> 2, leaving two vertices and
\* no edge
C15_Witness ==
    /\ last.op = "remove_vertex"
    /\ last.args[1] = 1
    /\ vertex_count(BeforeGraph) = 3
    /\ \A e \in GraphEdges : contains_edge(BeforeGraph, e) <=> e \in {Edge(0, 1), Edge(1, 2)}
    /\ last.result
    /\ vertex_count(graph) = 2
    /\ edge_count(graph) = 0

\* how many times the bag of a vertex holds an edge (0 for an unknown vertex)
Held(g, v, e) ==
    IF v \in DOMAIN g /\ e \in DOMAIN g[v] THEN g[v][e] ELSE 0

\* C16: add_edge(e) returns false and leaves the graph unchanged when e is
\* already contained; otherwise it returns true, both endpoints are vertices,
\* e is recorded once more in the bag of each endpoint (twice in the one bag
\* of a self-loop), nothing else changes, contains_edge(e) holds and
\* edge_count grew by exactly 1. From the empty graph, add_edge(0,1) then
\* add_edge(1,2) gives 3 vertices, 2 edges, degree_out(1) = degree_in(1) = 1.
C16_AddEdge ==
    last.op = "add_edge"
    => LET e == last.args[1]
           ends == {e[1], e[2]}
           once == IF e[1] = e[2] THEN 2 ELSE 1
       IN  IF contains_edge(BeforeGraph, e)
           THEN /\ last.result = FALSE
                /\ graph = BeforeGraph
           ELSE /\ last.result = TRUE
                /\ DOMAIN graph = DOMAIN BeforeGraph \cup ends
                /\ \A v \in DOMAIN graph : \A x \in GraphEdges :
                      Held(graph, v, x) = Held(BeforeGraph, v, x) +
                                          (IF x = e /\ v \in ends THEN once ELSE 0)
                /\ contains_edge(graph, e)
                /\ edge_count(graph) = edge_count(BeforeGraph) + 1
                /\ (/\ e = Edge(1, 2)
                    /\ DOMAIN BeforeGraph = {0, 1}
                    /\ \A x \in GraphEdges : contains_edge(BeforeGraph, x) <=> x = Edge(0, 1))
                   => /\ vertex_count(graph) = 3
                      /\ edge_count(graph) = 2
                      /\ degree_out(graph, 1) = 1
                      /\ degree_in(graph, 1) = 1

\* a self-loop was added on a vertex the graph did not have, next to other
\* edges
C16_Witness ==
    /\ last.op = "add_edge"
    /\ last.args[1][1] = last.args[1][2]
    /\ ~contains_vertex(BeforeGraph, last.args[1][1])
    /\ edge_count(BeforeGraph) >= 1
    /\ last.result
    /\ edge_count(graph) = edge_count(BeforeGraph) + 1

\* the edges the graph contains
EdgeSet(g) == {e \in GraphEdges : contains_edge(g, e)}

C18_AddVertex ==
    last.op = "add_vertex"
    => LET id == last.args[1]
       IN  /\ last.result = contains_vertex(BeforeGraph, id)
           /\ DOMAIN graph = DOMAIN BeforeGraph \cup {id}
           /\ \A v \in DOMAIN BeforeGraph : graph[v] = BeforeGraph[v]
           /\ ~contains_vertex(BeforeGraph, id) => graph[id] = BTreeBag_new
           /\ add_vertex(graph, id) = [graph |-> graph, result |-> TRUE]

\* a vertex that has edges was added again
C18_Witness ==
    /\ last.op = "add_vertex"
    /\ last.result = TRUE
    /\ degree_out(graph, last.args[1]) >= 1
    /\ degree_in(graph, last.args[1]) >= 1
    /\ graph = BeforeGraph

\* C19: remove_edge(e) takes one occurrence of e out of the bag of each
\* endpoint (both occurrences of a self-loop out of its one bag) and returns
\* true iff it found e on a side, which is iff contains_edge(e) held before
\* the call; afterwards contains_edge(e) is false, the vertices are the same
\* (both endpoints stay), no other edge is touched, and removing e again
\* returns false.
C19_RemoveEdge ==
    last.op = "remove_edge"
    => LET e == last.args[1]
           ends == {e[1], e[2]}
           once == IF e[1] = e[2] THEN 2 ELSE 1
       IN  /\ last.result = contains_edge(BeforeGraph, e)
           /\ last.result = (\E v \in ends : Held(BeforeGraph, v, e) > 0)
           /\ DOMAIN graph = DOMAIN BeforeGraph
           /\ \A v \in DOMAIN graph : \A x \in GraphEdges :
                 Held(graph, v, x) = Held(BeforeGraph, v, x) -
                                     (IF x = e /\ v \in ends /\ last.result THEN once ELSE 0)
           /\ ~contains_edge(graph, e)
           /\ remove_edge(graph, e) = [graph |-> graph, result |-> FALSE]

\* an edge between two vertices was removed while other edges of its
\* endpoints stay
C19_Witness ==
    /\ last.op = "remove_edge"
    /\ last.args[1][1] # last.args[1][2]
    /\ last.result = TRUE
    /\ contains_vertex(graph, last.args[1][1])
    /\ contains_vertex(graph, last.args[1][2])
    /\ degree_out(graph, last.args[1][1]) >= 1
    /\ degree_in(graph, last.args[1][2]) >= 1

\* the sizes of the bags of the given (vertex, edge) entries, added up
RECURSIVE TotalHeld(_, _)
TotalHeld(g, entries) ==
    IF entries = {} THEN 0
    ELSE LET p == CHOOSE x \in entries : TRUE
         IN  g[p[1]][p[2]] + TotalHeld(g, entries \ {p})

BagEntries(g) == {p \in (DOMAIN g) \X GraphEdges : p[2] \in DOMAIN g[p[1]]}

\* C20: the sizes of all incident multisets add up to an even number,
\* edge_count() is half of it, and that is the number of edges the graph
\* contains, a self-loop counting once.
C20_EdgeCount ==
    LET sum == TotalHeld(graph, BagEntries(graph))
    IN  /\ sum % 2 = 0
        /\ 2 * edge_count(graph) = sum
        /\ edge_count(graph) = Cardinality(EdgeSet(graph))

\* a graph with a self-loop among three edges, after one edge was removed
C20_Witness ==
    /\ last.op = "remove_edge"
    /\ last.result = TRUE
    /\ \E v \in GraphVertexIds : contains_edge(graph, Edge(v, v))
    /\ edge_count(graph) = 3
    /\ edge_count(BeforeGraph) = 4

\* C21: turning a graph into its export form (the list of vertex ids and the
\* list of edge pairs) and building a graph from that form gives a graph equal
\* to the original, self-loops and isolated vertices included, whatever the
\* order in which the HashMap is iterated.
C21_SerDeRoundTrip ==
    last.op = "ser_de" => last.result.graph = graph

\* the graph of test_small (edges 0->1, 0->2 and the loop 0->0) went through
\* the export form
C21_Witness ==
    /\ last.op = "ser_de"
    /\ EdgeSet(graph) = {Edge(0, 1), Edge(0, 2), Edge(0, 0)}
    /\ Len(last.result.graph_ser.vertices) = 3
    /\ Len(last.result.graph_ser.edges) = 6
    /\ last.result.graph # DirectedGraph_new

\* ----------------------------------------------------------- HashList claims
\* C22: iterating a chain yields its hashes from the head (newest) to the
\* end (oldest) and then ends by returning none, for every chain, the empty
\* one included; a second iter() yields the same again.
C22_IterationEnds ==
    last.op = "iter"
    => /\ ~last.result[1].panic
       /\ last.result[1].items = last.args[1]
       /\ Len(last.result) = 2
       /\ last.result[2] = last.result[1]

\* C23: cons(hash, chain) returns a chain whose head is hash and whose tail
\* is chain, and no chain built earlier changes: in every step that prepends
\* to a chain, the new chain is the hash followed by the old chain, and the
\* other chains are the sequences they were (the common chain too when the
\* step is not on all three).
C23_ConsKeepsTail ==
    [][\A side \in {"common", "l1", "l2"} :
          \/ lists'[side] = lists[side]
          \/ /\ lists'[side] # <<>>
             /\ Tail(lists'[side]) = lists[side]
             /\ Head(lists'[side]) = FreshHash]_vars

\* two chains that grew separately on a common chain of two hashes
C23_Witness ==
    /\ Len(lists.common) = 2
    /\ Len(lists.l1) = 4
    /\ Len(lists.l2) = 3
    /\ SubSeq(lists.l1, 3, 4) = lists.common
    /\ SubSeq(lists.l2, 2, 3) = lists.common

\* the first hash of a that occurs somewhere in b, if any
RECURSIVE FirstIn(_, _)
FirstIn(a, b) ==
    IF a = <<>> THEN None
    ELSE IF \E i \in 1..Len(b) : b[i] = Head(a) THEN Some(Head(a))
    ELSE FirstIn(Tail(a), b)

\* C26: first_common(a, b) is the first hash of a, from its head, that occurs
\* anywhere in b, and none iff no hash of a occurs in b.
C26_FirstCommonAnyDepth ==
    last.op = "first_common"
    => /\ last.result = FirstIn(last.args[1], last.args[2])
       /\ (last.result = None) <=>
             (\A i \in 1..Len(last.args[1]) : \A j \in 1..Len(last.args[2]) :
                 last.args[1][i] # last.args[2][j])

\* how many hashes at the head of the chain satisfy the predicate, one after
\* the other
RECURSIVE PrefixLen(_, _)
PrefixLen(list, predicate) ==
    IF list = <<>> \/ ~predicate[Head(list)] THEN 0
    ELSE 1 + PrefixLen(Tail(list), predicate)

\* C27: take_while(p) is the longest prefix of the chain whose hashes all
\* satisfy p, skip_while(p) is the rest of the chain, starting at the first
\* hash that does not satisfy p (empty if there is none), and the two put
\* together are the chain.
C27_TakeSkipSplit ==
    last.op = "take_skip_while"
    => LET list == last.args[1]
           k == PrefixLen(list, NotHash(last.args[2]))
       IN  /\ last.result.take = SubSeq(list, 1, k)
           /\ last.result.skip = SubSeq(list, k + 1, Len(list))
           /\ last.result.take \o last.result.skip = list

\* ---------------------------------------------------- Repository, over time
\* the first registered reference of the kind and name, as a set (empty when
\* there is none)
FirstRegistered(repo, kind, n) ==
    {repo.refs[i] : i \in {j \in 1..Len(repo.refs) :
        /\ repo.refs[j].kind = kind /\ repo.refs[j].name = n
        /\ \A k \in 1..(j - 1) : ~(repo.refs[k].kind = kind /\ repo.refs[k].name = n)}}

\* C24: a tag is a snapshot that nothing changes: tag(name) registers the
\* chain that is current at the call; in every later step each registered
\* reference stays what it is, at its place; and checkout_tag(name) yields,
\* and makes current, the tag registered first under the name, with that
\* chain.
C24_TagImmutable ==
    [][/\ (last'.op = "tag" /\ Len(repository'.refs) = Len(repository.refs) + 1)
          => repository'.refs[Len(repository'.refs)] =
                Tag(hashs(repository.current), last'.args[1])
       /\ \A i \in 1..Len(repository.refs) :
             /\ i <= Len(repository'.refs)
             /\ repository'.refs[i] = repository.refs[i]
       /\ \A n \in RefNames : \A t \in FirstRegistered(repository, "Tag", n) :
             /\ checkout_tag(repository', n).result = Ok(t)
             /\ (last'.op = "checkout_tag" /\ last'.args[1] = n)
                => (last'.result = Ok(t) /\ repository'.current = t)]_vars

\* a tag taken after one commit is checked out after a second commit moved
\* the current chain on
C24_Witness ==
    /\ last.op = "checkout_tag"
    /\ last.result.ok
    /\ Len(hashs(repository.current)) = 1
    /\ Len(hashs(Before.current)) = 2
    /\ Before.current.kind = "Branch"
    /\ SubSeq(hashs(Before.current), 2, 2) = hashs(repository.current)

\* the last call was a successful checkout that left Branch b, on which
\* commits had been made while it was current (its chain was no longer the
\* one registered under b)
LeftBranch(b) ==
    /\ last.op \in {"checkout_tag", "checkout_hash", "checkout_branch"}
    /\ last.result.ok
    /\ Before.current.kind = "Branch"
    /\ Before.current.name = b
    /\ Before.current \notin FirstRegistered(Before, "Branch", b)
    /\ ~(last.op = "checkout_branch" /\ last.args[1] = b)

\* C25: a branch follows its commits: when commits were made on branch b
\* while it was current and another reference was then checked out, a
\* following checkout_branch(b) succeeds and makes current the chain b had
\* after its last commit.
C25_BranchFollowsCommits ==
    [][\A b \in RefNames :
          (LeftBranch(b) /\ last'.op = "checkout_branch" /\ last'.args[1] = b)
          => /\ last'.result.ok
             /\ hashs(repository'.current) = hashs(Before.current)]_vars

\* C28: the current reference is a machine of three states. A new repository
\* is on Branch "master" with the empty chain; the current reference becomes
\* a Tag only by a successful checkout_tag, Detached only by a successful
\* checkout_hash, a Branch only by a successful commit or checkout_branch; a
\* reference is read-only exactly when it is a Tag or Detached; after a
\* successful commit the current reference is a Branch.
C28_RefStateMachine ==
    /\ repository.current = Branch(empty, "master")
    /\ [](/\ \A r \in AllRefs(repository) :
               /\ r.kind \in {"Branch", "Tag", "Detached"}
               /\ is_read_only(r) <=> r.kind \in {"Tag", "Detached"}
          /\ (last.op = "commit" /\ last.result.ok)
             => repository.current.kind = "Branch")
    /\ [][repository'.current # repository.current
          => /\ last'.result.ok
             /\ repository'.current.kind = "Tag" => last'.op = "checkout_tag"
             /\ repository'.current.kind = "Detached" => last'.op = "checkout_hash"
             /\ repository'.current.kind = "Branch"
                => last'.op \in {"commit", "checkout_branch"}]_vars

\* the machine goes from a Tag to Detached by a successful checkout_hash
C28_Witness ==
    /\ last.op = "checkout_hash"
    /\ last.result.ok
    /\ Before.current.kind = "Tag"
    /\ repository.current.kind = "Detached"
    /\ is_read_only(repository.current)

\* the registered references of a repository, as a set
RegisteredRefs(repo) == {repo.refs[i] : i \in 1..Len(repo.refs)}

\* C29: commit is the only operation that changes the commit table; commit
\* and the three checkouts leave the registered references as they were; no
\* operation removes a registered reference, so that the branch "master" of
\* a new repository stays registered and checkout_branch("master") succeeds
\* in every reachable state.
C29_FrameEffects ==
    /\ last.op \in {"tag", "branch", "checkout_tag", "checkout_branch",
                    "checkout_hash", "commits"}
       => repository.commits = Before.commits
    /\ last.op \in {"commit", "checkout_tag", "checkout_branch", "checkout_hash"}
       => repository.refs = Before.refs
    /\ RegisteredRefs(Before) \subseteq RegisteredRefs(repository)
    /\ Len(Before.refs) <= Len(repository.refs)
    /\ \E r \in RegisteredRefs(repository) : r.kind = "Branch" /\ r.name = "master"
    /\ checkout_branch(repository, "master").result.ok

\* a tag was registered in a repository that holds a commit: the commit
\* table is the one before the call, and "master" is registered besides the
\* tag
C29_Witness ==
    /\ last.op = "tag"
    /\ Before.commits # EmptyMap
    /\ repository.commits = Before.commits
    /\ Len(repository.refs) = Len(Before.refs) + 1
    /\ repository.current.kind = "Detached"

\* ------------------------------------------------- HistorizedGraph, replayed
\* the commands of the commits of a chain, oldest commit first
RECURSIVE ChainCommands(_, _)
ChainCommands(repo, chain) ==
    IF chain = <<>> THEN <<>>
    ELSE ChainCommands(repo, Tail(chain)) \o find_commit(repo, Head(chain))[1].item

\* C30: after any sequence of add_vertex, remove_vertex, add_edge and
\* remove_edge on a HistorizedGraph that started empty on its empty branch,
\* every hash of the current chain is in the commit table, and applying the
\* commands of the chain's commits, oldest first, to an empty graph gives
\* the graph held in memory.
C30_ReplayEqualsLive ==
    LET chain == hashs(repository.current)
    IN  /\ \A i \in 1..Len(chain) : find_commit(repository, chain[i]) # None
        /\ apply_commands(ChainCommands(repository, chain), DirectedGraph_new) = graph

\* a vertex added by the first call is removed by the second
C30_Witness ==
    /\ ~panicked
    /\ last.op = "remove_vertex"
    /\ last.result = TRUE
    /\ Len(hashs(repository.current)) = 2
    /\ graph = DirectedGraph_new
    /\ last.before.graph # DirectedGraph_new

\* ------------------------------------------------------------ commit records
\* C31: a commit record is never changed once stored: the commit table maps
\* each hash to the author, comment and item of the commit that produced the
\* hash first, whatever is called afterwards, and every successful commit
\* adds exactly one entry to the table.
C31_CommitRecordImmutable ==
    /\ \A h \in DOMAIN Before.commits :
          /\ h \in DOMAIN repository.commits
          /\ repository.commits[h] = Before.commits[h]
    /\ (last.op = "commit" /\ last.result.ok)
       => Cardinality(DOMAIN repository.commits)
             = Cardinality(DOMAIN Before.commits) + 1

\* ------------------------------------------------------ commands, applied
\* the DirectedGraph method a command stands for, called on g
Mutator(command, g) ==
    IF command[1] = "AddVertex" THEN add_vertex(g, command[2])
    ELSE IF command[1] = "RemoveVertex" THEN remove_vertex(g, command[2])
    ELSE IF command[1] = "AddEdge" THEN add_edge(g, <<command[2], command[3]>>)
    ELSE remove_edge(g, <<command[2], command[3]>>)

\* the graph after the first i commands were each given to its method
AfterCalls(commands, g) ==
    LET G[i \in 0..Len(commands)] ==
            IF i = 0 THEN g ELSE Mutator(commands[i], G[i - 1]).graph
    IN  G

\* C32: apply_commands gives each command of the list, in list order, to the
\* DirectedGraph method it stands for, every one of them whatever the ones
\* before returned; apply_to returns what that method returns.
C32_AppliedInOrder ==
    /\ last.op = "apply_commands"
       => graph = AfterCalls(last.args[1], BeforeGraph)[Len(last.args[1])]
    /\ last.op = "apply_to"
       => /\ graph = Mutator(last.args[1], BeforeGraph).graph
          /\ last.result = Mutator(last.args[1], BeforeGraph).result

\* a list whose first command changed nothing and whose later command did
C32_Witness ==
    /\ last.op = "apply_commands"
    /\ Len(last.args[1]) >= 2
    /\ AfterCalls(last.args[1], BeforeGraph)[1] = BeforeGraph
    /\ graph # BeforeGraph

\* C33: revert looks at the command only, and applying it does not bring a
\* graph back: RemoveVertex(v) and then its revert AddVertex(v), applied to a
\* graph where v has incident edges, give a graph where v is a vertex with
\* no incident edge, in its own bag or in the bag of another vertex; the
\* other vertices keep their other edges.  remove_vertex returns true (v was
\* there) and add_vertex false (v was no longer there).
C33_RevertDoesNotRestore ==
    (/\ last.op = "apply_revert"
     /\ last.args[1][1] = "RemoveVertex"
     /\ contains_vertex(BeforeGraph, last.args[1][2])
     /\ BeforeGraph[last.args[1][2]] # BTreeBag_new)
    => LET v == last.args[1][2]
       IN  /\ revert(last.args[1]) = AddVertex(v)
           /\ last.result = <<TRUE, FALSE>>
           /\ DOMAIN graph = DOMAIN BeforeGraph
           /\ graph[v] = BTreeBag_new
           /\ \A w \in DOMAIN graph \ {v} : graph[w] = WithoutVertex(BeforeGraph[w], v)
           /\ graph # BeforeGraph

\* the vertex removed and added again had an edge to another vertex and a
\* self-loop
C33_Witness ==
    /\ last.op = "apply_revert"
    /\ last.args[1] = RemoveVertex(1)
    /\ contains_edge(BeforeGraph, Edge(0, 1))
    /\ contains_edge(BeforeGraph, Edge(1, 1))
    /\ contains_vertex(graph, 1)
    /\ ~contains_edge(graph, Edge(0, 1))

\* ------------------------------------------------------------------ degrees
\* the values of f on the vertices vs, added up
RECURSIVE SumOver(_, _)
SumOver(f, vs) ==
    IF vs = {} THEN 0
    ELSE LET v == CHOOSE x \in vs : TRUE
         IN  f[v] + SumOver(f, vs \ {v})

\* C34: degree_out(v) is the number of edges of the graph that leave v and
\* degree_in(v) the number of those that enter v, 0 for a vertex the graph
\* does not hold; over all vertices each of the two adds up to edge_count(),
\* self-loops included.
C34_DegreeSums ==
    /\ \A v \in GraphVertexIds :
          /\ degree_out(graph, v) = Cardinality({e \in EdgeSet(graph) : e[1] = v})
          /\ degree_in(graph, v) = Cardinality({e \in EdgeSet(graph) : e[2] = v})
          /\ ~contains_vertex(graph, v)
             => (degree_out(graph, v) = 0 /\ degree_in(graph, v) = 0)
    /\ SumOver([v \in GraphVertexIds |-> degree_out(graph, v)], GraphVertexIds)
          = edge_count(graph)
    /\ SumOver([v \in GraphVertexIds |-> degree_in(graph, v)], GraphVertexIds)
          = edge_count(graph)

\* ------------------------------------------------------------------ edges()
\* C35: edges() yields every edge of the graph, each once, in whatever order
\* the map is iterated: it yields edge_count() items, and the export form
\* and the list of as_commands built from it hold one entry for each edge.
C35_EdgesOnce ==
    \A order \in IterOrders(DOMAIN graph) :
       LET es == edges(graph, order)
           ser == DirectedGraphSer_from(graph, order)
           cmds == as_commands(graph, order)
       IN  /\ Len(es) = edge_count(graph)
           /\ \A e \in GraphEdges :
                 /\ Count(es, e) = (IF contains_edge(graph, e) THEN 1 ELSE 0)
                 /\ Count(ser.edges, e) = Count(es, e)
                 /\ Count(cmds, AddEdge(e[1], e[2])) = Count(es, e)
           /\ Len(ser.edges) = edge_count(graph)
           /\ Len(cmds) = vertex_count(graph) + edge_count(graph)

\* ------------------------------------------------------------- stored edges
\* C36: in every graph that add_vertex, remove_vertex, add_edge and
\* remove_edge lead to, an edge stored in the incident multiset of a vertex
\* has that vertex as an endpoint, and both its endpoints are vertices of
\* the graph.
C36_StoredEdgesIncident ==
    \A v \in DOMAIN graph : \A e \in DOMAIN graph[v] :
       /\ e[1] = v \/ e[2] = v
       /\ contains_vertex(graph, e[1])
       /\ contains_vertex(graph, e[2])

\* a vertex with an edge in each direction was removed, beside an edge
\* between the two vertices that stay
C36_Witness ==
    /\ last.op = "remove_vertex"
    /\ last.result = TRUE
    /\ \E w \in DOMAIN graph :
          /\ contains_edge(BeforeGraph, Edge(last.args[1], w))
          /\ contains_edge(BeforeGraph, Edge(w, last.args[1]))
    /\ \E e \in GraphEdges : e[1] # e[2] /\ contains_edge(graph, e)

\* ------------------------------------------------------------------- diffs
\* C37: when the fields of a StructureDiff are the differences of the
\* vertices and of the edges of g1 and g2, the commands of as_commands
\* (RemoveVertex of the extra vertices, AddVertex of the missing ones,
\* RemoveEdge of the extra edges, AddEdge of the missing ones), applied to
\* g1, give g2.
C37_DiffPatches ==
    last.op = "diff" => last.result.patched = last.args[2]

\* g1 has a vertex that g2 lacks, with two edges that go with it
C37_Witness ==
    /\ last.op = "diff"
    /\ last.args[3].extra_vertices # <<>>
    /\ Len(last.args[3].extra_edges) >= 2
    /\ last.args[2] # DirectedGraph_new
    /\ last.result.patched = last.args[2]

\* ----------------------------------------------------------------- BTreeBag
\* how many times iter() yields t
Yielded(b, t) == Count(BTreeBag_iter(b), t)

Range(seq) == {seq[i] : i \in DOMAIN seq}

\* C39: the store gives back what was written, under the name made from the
\* content: a vertex file written and read by the hash returned gives the
\* same VertexId; read_graph_vertices with the hash that write_graph_vertices
\* returned, into an empty graph, gives a graph with the vertices written;
\* every complete file has the name its content gives; and writing a vertex
\* that is already stored leaves the store as it was.
C39_StoreRoundTrip ==
    /\ [](/\ \A v \in StoredVertexIds :
               /\ file_to_vertex(vertex_to_file(v)) = Ok(v)
               /\ vertex_to_file(v).hash = Hash_from(vertex_to_file(v).content)
          /\ (last.op = "write_read_vertex" /\ last.result.ok)
             => last.result.val = last.args[1]
          /\ last.op = "read_graph_vertices"
             => /\ last.result.ok
                /\ DOMAIN last.result.val = Range(last.args[2])
          /\ \A dir \in {"base", "vertex", "vertexvec"} : \A n \in DOMAIN files[dir] :
                files[dir][n] = <<>> \/ n = Hash_to_string(Hash_from(files[dir][n])))
    /\ [][(/\ last'.op = "write_read_vertex"
           /\ writer' = writer /\ graph' = graph
           /\ last'.result.ok
           /\ read_file_in_dir(files, "base", vertex_to_file(last'.args[1]).hash)
                 = Ok(vertex_to_file(last'.args[1])))
          => files' = files]_vars

\* the two vertices of a graph, one with an id of two bytes, were written
\* and read back
C39_Witness ==
    /\ last.op = "read_graph_vertices"
    /\ last.result.ok
    /\ DOMAIN last.result.val = StoredVertexIds
    /\ DOMAIN files.vertex = {Hash_to_string(vertex_to_file(v).hash) : v \in StoredVertexIds}
    /\ \E v \in StoredVertexIds :
          read_file_in_dir(files, "base", vertex_to_file(v).hash) = Ok(vertex_to_file(v))

\* the vertices that write_graph_vertices collected are all stored, complete
AllVerticesStored ==
    /\ "vertex" \in files.dirs
    /\ writer.pending = {}
    /\ \A i \in DOMAIN writer.vertices :
          read_file_in_dir(files, "vertex", vertex_to_file(writer.vertices[i]).hash)
             = Ok(vertex_to_file(writer.vertices[i]))

\* C40: write_graph_vertices touches the file of the hash vector only when
\* the vertex directory exists and every vertex file is written, whatever
\* the order in which the vertex writes ended; a vertex write that fails
\* ends the operation with an error and without a write of the vector file;
\* when the operation has succeeded, the vector file it names is stored and
\* every hash listed in it names a stored vertex file.
C40_VectorFileLast ==
    /\ [](writer.pc = "done"
          => LET hash_vec == read_vertex_hash_vec(files, writer.hash[1])
             IN  /\ hash_vec.ok
                 /\ hash_vec.val = HashVec(writer.vertices)
                 /\ \A i \in DOMAIN hash_vec.val :
                       read_file_in_dir(files, "vertex", hash_vec.val[i]).ok
                 /\ AllVerticesStored)
    /\ [][/\ files'.vertexvec # files.vertexvec
             => (writer.pc = "write_vertexvec" /\ AllVerticesStored)
          /\ (writer.pc = "write_vertices" /\ writer'.pc = "idle")
             => /\ files'.vertexvec = files.vertexvec
                /\ last'.op = "write_graph_vertices"
                /\ ~last'.result.ok]_vars

\* the operation succeeded for a graph of two vertices
C40_Witness ==
    /\ writer.pc = "done"
    /\ Len(writer.vertices) = 2
    /\ last.op = "write_graph_vertices"
    /\ last.result = Ok(writer.hash[1])
    /\ Cardinality(DOMAIN files.vertexvec) >= 2

====
